---- MODULE Spec2Model ----
(***************************************************************************)
(* State-machine model of the update-dispatch core of the Telegram bot     *)
(* library: UpdateHandler (src/src/UpdateHandler.ts).                      *)
(*                                                                         *)
(*   use / onMessage / ...   registration                                  *)
(*   processUpdate           entry point, creates the context              *)
(*   runMiddleware/dispatch  the continuation-passing middleware chain     *)
(*   routeUpdate             the per-kind presence-and-toggle checks       *)
(*   runHandlers             the per-registry loop with its try/catch      *)
(*                                                                         *)
(* One processUpdate call is a stack of frames; a step of a call is what   *)
(* the code does between two await points.  Middleware stages and handlers *)
(* are user code: they are inputs, drawn from small sets of behaviours.    *)
(*                                                                         *)
(* Layered on it: commandParser (src/src/UpdateHandler.ts), the            *)
(* CommandRouter (src/unnamed/part_008), the auth() stage                  *)
(* (src/unnamed/part_003) and the transport's makeRequest with its         *)
(* RateLimiter (src/src/TelegramClient.ts).  A string is a sequence of     *)
(* characters; time is in milliseconds.                                    *)
(***************************************************************************)
EXTENDS Integers, Sequences, FiniteSets, TLC

\* ------------------------------------------------------------- bounds
MaxStages == 3
MaxHandlers == 3
MaxFields == 2
MaxCalls == 2
MaxText == 5
MaxArgs == 2
MaxCommands == 2
MaxConfigured == 4
MaxApiCalls == 32

\* ------------------------------------------------------ the kind table

\* Mutant of Kinds: business_message is tested before business_connection.
KindsReordered ==
  << "message", "edited_message", "channel_post", "edited_channel_post",
     "business_message", "business_connection", "edited_business_message",
     "business_messages_deleted", "message_reaction", "message_reaction_count",
     "inline_query", "chosen_inline_result", "callback_query", "shipping_query",
     "pre_checkout_query", "poll", "poll_answer", "my_chat_member",
     "chat_member", "chat_join_request", "chat_boost", "removed_chat_boost" >>

\* The kind fields of an Update in the order routeUpdate tests them.
Kinds ==
  << "message", "edited_message", "channel_post", "edited_channel_post",
     "business_connection", "business_message", "edited_business_message",
     "business_messages_deleted", "message_reaction", "message_reaction_count",
     "inline_query", "chosen_inline_result", "callback_query", "shipping_query",
     "pre_checkout_query", "poll", "poll_answer", "my_chat_member",
     "chat_member", "chat_join_request", "chat_boost", "removed_chat_boost" >>

KindSet == { Kinds[j] : j \in 1..Len(Kinds) }

\* The toggles of UpdateHandlerConfig.
Toggles ==
  { "handleEditedMessages", "handleChannelPosts", "handleInlineQueries",
    "handleCallbackQueries", "handleShippingQueries", "handlePreCheckoutQueries",
    "handlePolls", "handlePollAnswers", "handleChatMemberUpdates",
    "handleChatJoinRequests", "handleChatBoosts", "handleBusinessConnections",
    "handleBusinessMessages", "handleMessageReactions" }

\* The constructor's defaults: every toggle enabled.
DefaultConfig == [t \in Toggles |-> TRUE]

\* new UpdateHandler({ [t]: false }): the defaults with one toggle overridden.
ConfigWithout(t) == [DefaultConfig EXCEPT ![t] = FALSE]

\* Mutant of ToggleOf: the test of edited_channel_post was copied from that of
\* edited_message, toggle included.
ToggleOfCopied(kind) ==
  CASE kind = "message" -> "none"
    [] kind \in {"edited_message", "edited_channel_post"} -> "handleEditedMessages"
    [] kind = "channel_post" -> "handleChannelPosts"
    [] kind = "business_connection" -> "handleBusinessConnections"
    [] kind \in {"business_message", "edited_business_message",
                 "business_messages_deleted"} -> "handleBusinessMessages"
    [] kind \in {"message_reaction", "message_reaction_count"} -> "handleMessageReactions"
    [] kind \in {"inline_query", "chosen_inline_result"} -> "handleInlineQueries"
    [] kind = "callback_query" -> "handleCallbackQueries"
    [] kind = "shipping_query" -> "handleShippingQueries"
    [] kind = "pre_checkout_query" -> "handlePreCheckoutQueries"
    [] kind = "poll" -> "handlePolls"
    [] kind = "poll_answer" -> "handlePollAnswers"
    [] kind \in {"my_chat_member", "chat_member"} -> "handleChatMemberUpdates"
    [] kind = "chat_join_request" -> "handleChatJoinRequests"
    [] kind \in {"chat_boost", "removed_chat_boost"} -> "handleChatBoosts"

\* The toggle routeUpdate tests beside a kind's field; "none" for message,
\* whose test is the field alone.
ToggleOf(kind) ==
  CASE kind = "message" -> "none"
    [] kind = "edited_message" -> "handleEditedMessages"
    [] kind \in {"channel_post", "edited_channel_post"} -> "handleChannelPosts"
    [] kind = "business_connection" -> "handleBusinessConnections"
    [] kind \in {"business_message", "edited_business_message",
                 "business_messages_deleted"} -> "handleBusinessMessages"
    [] kind \in {"message_reaction", "message_reaction_count"} -> "handleMessageReactions"
    [] kind \in {"inline_query", "chosen_inline_result"} -> "handleInlineQueries"
    [] kind = "callback_query" -> "handleCallbackQueries"
    [] kind = "shipping_query" -> "handleShippingQueries"
    [] kind = "pre_checkout_query" -> "handlePreCheckoutQueries"
    [] kind = "poll" -> "handlePolls"
    [] kind = "poll_answer" -> "handlePollAnswers"
    [] kind \in {"my_chat_member", "chat_member"} -> "handleChatMemberUpdates"
    [] kind = "chat_join_request" -> "handleChatJoinRequests"
    [] kind \in {"chat_boost", "removed_chat_boost"} -> "handleChatBoosts"

\* ------------------------------------------------- user code (inputs)

\* Behaviours of a middleware stage (ctx, next):
\*   once        before-code; await next(); after-code
\*   never       before-code; after-code            (never calls next)
\*   twice       before-code; await next(); await next(); after-code
\*   failBefore  before-code; throw                 (before calling next)
\*   failAfter   before-code; await next(); throw
\* The before-code of every stage writes one field of the context.
StageFns == {"once", "never", "twice", "failBefore", "failAfter"}

\* Behaviours of a handler (ctx): ok resolves, bad rejects.
HandlerFns == {"ok", "bad"}

\* The stages the library provides: commandParser(), router.middleware() and
\* auth(config).
LibraryStages == {"commandParser", "commandRouter", "auth"}

\* ------------------------------------------------------------ JS values

\* undefined, and a defined string or array.
Undefined == [some |-> FALSE, v |-> << >>]

Some(v) == [some |-> TRUE, v |-> v]

\* undefined, and a defined number.
NoNumber == [some |-> FALSE, v |-> 0]

Num(n) == [some |-> TRUE, v |-> n]

\* A string or a number used as a condition: undefined, "" and 0 are falsy.
Truthy(x) == x.some /\ x.v # << >>

TruthyNumber(x) == x.some /\ x.v # 0

\* str.split(sep) for a one-character separator: the parts between the
\* occurrences of sep, the empty ones included.
RECURSIVE SplitOn(_, _)
SplitOn(str, sep) ==
  LET at == { j \in 1..Len(str) : str[j] = sep }
  IN  IF at = {} THEN << str >>
      ELSE LET j == CHOOSE m \in at : \A n \in at : m <= n
           IN  << SubSeq(str, 1, j - 1) >> \o SplitOn(SubSeq(str, j + 1, Len(str)), sep)

\* ch.toLowerCase() for the letters of the model's alphabet.
LowerChar(ch) ==
  CASE ch = "A" -> "a"
    [] ch = "P" -> "p"
    [] ch = "H" -> "h"
    [] OTHER -> ch

\* str.toLowerCase()
ToLowerCase(str) == [j \in 1..Len(str) |-> LowerChar(str[j])]

\* ------------------------------------------------------------ commandParser

\* What commandParser assigns to ctx for a text that starts with '/':
\*   parts = text.split(' '); commandPart = parts[0].substring(1);
\*   [command, botUsername] = commandPart.split('@'); args = parts.slice(1)
ParseCommand(text) ==
  LET parts == SplitOn(text, " ")
      commandPart == Tail(parts[1])
      pieces == SplitOn(commandPart, "@")
  IN  [command |-> Some(pieces[1]),
       args |-> Some(Tail(parts)),
       botUsername |-> IF Len(pieces) >= 2 THEN Some(pieces[2]) ELSE Undefined]

\* message?.text?.startsWith('/')
StartsWithMarker(text) == text.some /\ Len(text.v) >= 1 /\ text.v[1] = "/"

VARIABLES
  config,       \* this.config
  middleware,   \* this.middleware
  handlers,     \* the 22 handler arrays, by kind
  index,        \* runMiddleware's index, one cell per runMiddleware call
  ctx,          \* the UpdateContext objects, one per processUpdate call
  stack,        \* per call: the frames of the async functions in progress
  running,      \* per call: the handler invocations started and not settled
  trace,        \* per call: what ran, in order (observation)
  status,       \* per call: idle, running, resolved, rejected
  error,        \* per call: the error processUpdate rejected with
  registered,   \* the registration calls made so far (observation)
  update,       \* per call: the Update processUpdate was called with
  router,       \* the CommandRouter: commandMap, handlers, helpCommand
  client,       \* the TelegramClient and its makeRequest call in progress
  authConfig    \* the configuration the auth(config) stage closes over

vars == << config, middleware, handlers, index, ctx, stack, running, trace,
           status, error, registered, update, router, client, authConfig >>

CallIds == 1..MaxCalls

NoError == [type |-> "none", kind |-> "-", n |-> 0]
StageError(pos) == [type |-> "stage", kind |-> "-", n |-> pos]
HandlerError(kind, i) == [type |-> "handler", kind |-> kind, n |-> i]

\* The text of update.message and of update.business_message.
NoText == [message |-> Undefined, business_message |-> Undefined]

\* No `from` (a User, by its id) and no `chat` (a Chat: its id and type).
NoUser == [some |-> FALSE, v |-> 0]

NoChat == [some |-> FALSE, v |-> [id |-> 0, type |-> "-"]]

\* An Update: its update_id, the kind fields it carries, the text of its
\* message and business_message, and the `from` and the `chat` (for a
\* callback_query: the `message.chat`) of its kind field.
SenderUpdate(id, fields, text, from, chat) ==
  [update_id |-> id, fields |-> fields, text |-> text, from |-> from, chat |-> chat]

TextUpdate(id, fields, text) == SenderUpdate(id, fields, text, NoUser, NoChat)

Update(id, fields) == TextUpdate(id, fields, NoText)

\* ctx.update.message || ctx.update.business_message, as its text
MessageText(u) ==
  IF "message" \in u.fields THEN u.text.message
  ELSE IF "business_message" \in u.fields THEN u.text.business_message
  ELSE Undefined

NoCtx ==
  [update |-> Update(0, {}), client |-> "-", ext |-> {},
   command |-> Undefined, args |-> Undefined, botUsername |-> Undefined,
   user |-> NoUser, isAdmin |-> FALSE, chat |-> NoChat]

\* A frame of the call stack.
Frame(op, pos, fn, pc, k, kind, i, fields) ==
  [op |-> op, pos |-> pos, fn |-> fn, pc |-> pc, k |-> k, kind |-> kind,
   i |-> i, fields |-> fields]

DispatchFrame == Frame("dispatch", 0, "-", "-", 0, "-", 0, {})
StageFrame(pos, fn, pc) == Frame("stage", pos, fn, pc, 0, "-", 0, {})
RouteFrame(k, fields) == Frame("route", 0, "-", "-", k, "-", 0, fields)
HandlersFrame(kind, i) == Frame("handlers", 0, "-", "-", 0, kind, i, {})

\* No reply text (an entry of the trace that is not a reply).
NoReply == [template |-> "-", command |-> << >>, bound |-> 0, text |-> << >>]

\* An entry of the trace: what ran, and the context it was handed.
Ev(e, kind, n, fn, c) ==
  [e |-> e, kind |-> kind, n |-> n, fn |-> fn,
   u |-> c.update.update_id, x |-> c.ext, command |-> c.command, args |-> c.args,
   text |-> NoReply]

\* ---------------------------------------------------------- registration

\* Mutant of Push: an entry already in the array is not added again.
PushUnique(array, x) ==
  IF \E j \in 1..Len(array) : array[j] = x THEN array ELSE Append(array, x)

\* array.push(x)
Push(array, x) == Append(array, x)

\* use(middleware): this.middleware.push(middleware)
Use(s) ==
  /\ middleware' = Push(middleware, s)
  /\ registered' = [registered EXCEPT !.use = Append(@, s)]
  /\ UNCHANGED << config, handlers, index, ctx, stack, running, trace, status,
                  error, update, router, client, authConfig >>

\* onMessage(handler), onEditedMessage(handler), ...: the kind's array .push(handler)
On(kind, f) ==
  /\ handlers' = [handlers EXCEPT ![kind] = Push(@, f)]
  /\ registered' = [registered EXCEPT !.on[kind] = Append(@, f)]
  /\ UNCHANGED << config, middleware, index, ctx, stack, running, trace, status,
                  error, update, router, client, authConfig >>

\* ------------------------------------------------- one call's own state

\* Mutant of IndexSlot: the chain position is kept on the UpdateHandler.
IndexSlotShared(c) == 1

\* runMiddleware's `let index = 0` is a local of that runMiddleware call and
\* processUpdate's `const ctx = { update, client }` is a fresh object of that
\* processUpdate call: call c has the cells index[c] and ctx[c].
IndexSlot(c) == c

CtxSlot(c) == c

\* What call c works on.
View(c) ==
  [index |-> index[IndexSlot(c)], ctx |-> ctx[CtxSlot(c)], stack |-> stack[c],
   running |-> running[c], trace |-> trace[c], status |-> status[c],
   error |-> error[c]]

\* Call c's step leaves cs behind.
CommitCall(c, cs) ==
  /\ index' = [index EXCEPT ![IndexSlot(c)] = cs.index]
  /\ ctx' = [ctx EXCEPT ![CtxSlot(c)] = cs.ctx]
  /\ stack' = [stack EXCEPT ![c] = cs.stack]
  /\ running' = [running EXCEPT ![c] = cs.running]
  /\ trace' = [trace EXCEPT ![c] = cs.trace]
  /\ status' = [status EXCEPT ![c] = cs.status]
  /\ error' = [error EXCEPT ![c] = cs.error]
  /\ UNCHANGED << config, middleware, handlers, registered, router, client,
                  authConfig >>

Commit(c, cs) == CommitCall(c, cs) /\ UNCHANGED update

Top(cs) == cs.stack[Len(cs.stack)]

Popped(cs) == SubSeq(cs.stack, 1, Len(cs.stack) - 1)

Log(cs, ev) == [cs EXCEPT !.trace = Append(@, ev)]

\* ----------------------------------------------------------- processUpdate

\* Mutant of ProcessUpdateCatch: the catch block logs and does not rethrow.
ProcessUpdateCatchSwallow(err) == [status |-> "resolved", error |-> NoError]

\* processUpdate's catch block: console.error, then `throw error`.
ProcessUpdateCatch(err) == [status |-> "rejected", error |-> err]

\* An error thrown inside the chain: no frame of runMiddleware, dispatch or
\* routeUpdate catches, and the stages modelled do not either, so it reaches
\* processUpdate's catch block.
Throw(cs, err) ==
  LET r == ProcessUpdateCatch(err)
  IN  [cs EXCEPT !.stack = << >>, !.running = {}, !.status = r.status,
                 !.error = r.error]

\* processUpdate(update, client) up to the first call of dispatch():
\* the fresh ctx, runMiddleware's index = 0, dispatch() pending.
DoProcessUpdate(u) ==
  [index |-> 0,
   ctx |-> [update |-> u, client |-> "client", ext |-> {},
            command |-> Undefined, args |-> Undefined, botUsername |-> Undefined,
            user |-> NoUser, isAdmin |-> FALSE, chat |-> NoChat],
   stack |-> << DispatchFrame >>, running |-> {}, trace |-> << >>,
   status |-> "running", error |-> NoError]

\* Mutant of CanReturn: runMiddleware is called without await.
CanReturnNoAwait(cs) == cs.status = "running"

\* processUpdate's promise resolves when runMiddleware has returned.
CanReturn(cs) == cs.status = "running" /\ cs.stack = << >>

DoReturn(cs) == [cs EXCEPT !.status = "resolved"]

\* ------------------------------------------------- runMiddleware / dispatch

\* Mutant of StageAt: the chain is walked from its last stage to its first.
StageAtReversed(i) ==
  [pos |-> Len(middleware) - i, fn |-> middleware[Len(middleware) - i]]

\* this.middleware[index]: the stage at chain position index (0-based).
StageAt(i) == [pos |-> i + 1, fn |-> middleware[i + 1]]

CanDispatch(cs) ==
  cs.status = "running" /\ cs.stack # << >> /\ Top(cs).op = "dispatch"

\* dispatch(): past the end of the chain it awaits next(), which is routeUpdate
\* (`const { update } = ctx`); otherwise it takes this.middleware[index++] and
\* calls it with (ctx, dispatch).
DoDispatch(cs) ==
  IF cs.index >= Len(middleware)
    THEN Log([cs EXCEPT !.stack = Append(Popped(cs),
                                         RouteFrame(0, cs.ctx.update.fields))],
             Ev("route", "-", 0, "-", cs.ctx))
    ELSE LET st == StageAt(cs.index)
         IN  [cs EXCEPT !.index = @ + 1,
                        !.stack = Append(Popped(cs),
                                         StageFrame(st.pos, st.fn, "before"))]

\* ------------------------------------------------------------ CommandRouter

\* A CommandConfig object.  id tells the objects apart: it is the number of the
\* command() call that passed it.
CommandConfig(id, command, description, handler, aliases, minArgs, maxArgs, ignoreCase) ==
  [id |-> id, command |-> command, description |-> description,
   handler |-> handler, aliases |-> aliases, minArgs |-> minArgs,
   maxArgs |-> maxArgs, ignoreCase |-> ignoreCase]

\* No handler set (defaultHandler, unknownCommandHandler).
NoHandler == [some |-> FALSE, v |-> "-"]

\* 'help'
DefaultHelpCommand == << "h", "e", "l", "p" >>

\* new CommandRouter(): the field initialisers.
NewRouter ==
  [commandMap |-> << >>, defaultHandler |-> NoHandler,
   unknownCommandHandler |-> NoHandler, helpCommand |-> DefaultHelpCommand]

MapHas(map, key) == \E j \in 1..Len(map) : map[j].key = key

\* map.get(key), for a key the map has
MapGet(map, key) == map[CHOOSE j \in 1..Len(map) : map[j].key = key].value

\* Mutant of MapSet: a key the map already has keeps its value.
MapSetIfAbsent(map, key, value) ==
  IF MapHas(map, key) THEN map ELSE Append(map, [key |-> key, value |-> value])

\* map.set(key, value): a Map keeps its keys in insertion order, and setting
\* a key it has replaces the value where the key is.
MapSet(map, key, value) ==
  IF MapHas(map, key)
    THEN [j \in 1..Len(map) |->
            IF map[j].key = key THEN [key |-> key, value |-> value] ELSE map[j]]
    ELSE Append(map, [key |-> key, value |-> value])

\* config.ignoreCase ? name.toLowerCase() : name
KeyOf(cfg, name) == IF cfg.ignoreCase THEN ToLowerCase(name) ELSE name

\* for (const alias of config.aliases) this.commandMap.set(aliasName, config)
RECURSIVE SetAliases(_, _, _)
SetAliases(map, cfg, aliases) ==
  IF aliases = << >> THEN map
  ELSE SetAliases(MapSet(map, KeyOf(cfg, Head(aliases)), cfg), cfg, Tail(aliases))

\* command(config), on the map
RegisterCommand(map, cfg) ==
  LET named == MapSet(map, KeyOf(cfg, cfg.command), cfg)
  IN  IF cfg.aliases.some THEN SetAliases(named, cfg, cfg.aliases.v) ELSE named

\* command(config)
Command(cfg) ==
  /\ router' = [router EXCEPT !.commandMap = RegisterCommand(@, cfg)]
  /\ registered' = [registered EXCEPT !.commands = Append(@, cfg)]
  /\ UNCHANGED << config, middleware, handlers, index, ctx, stack, running,
                  trace, status, error, update, client, authConfig >>

RouterUnchanged ==
  UNCHANGED << config, middleware, handlers, index, ctx, stack, running,
               trace, status, error, update, client, registered, authConfig >>

\* default(handler)
Default(h) ==
  /\ router' = [router EXCEPT !.defaultHandler = [some |-> TRUE, v |-> h]]
  /\ RouterUnchanged

\* unknown(handler)
Unknown(h) ==
  /\ router' = [router EXCEPT !.unknownCommandHandler = [some |-> TRUE, v |-> h]]
  /\ RouterUnchanged

\* help(command)
Help(name) ==
  /\ router' = [router EXCEPT !.helpCommand = name]
  /\ RouterUnchanged

\* lines.join('\n')
RECURSIVE Join(_)
Join(lines) ==
  IF lines = << >> THEN << >>
  ELSE IF Len(lines) = 1 THEN lines[1]
  ELSE lines[1] \o << "\n" >> \o Join(Tail(lines))

\* `/${cmd.command} - ${cmd.description}`
HelpLine(cmd) == << "/" >> \o cmd.command \o << " ", "-", " " >> \o cmd.description.v

\* 'No commands available.'
NoCommandsText == << "No commands available." >>

\* Array.from(map.values()): the value of every key, in insertion order.
MapValues(map) == [j \in 1..Len(map) |-> map[j].value]

\* generateHelp()
GenerateHelp(map) ==
  LET described(cmd) == Truthy(cmd.description)
      cmds == SelectSeq(MapValues(map), described)
      commands == Join([j \in 1..Len(cmds) |-> HelpLine(cmds[j])])
  IN  IF commands # << >> THEN commands ELSE NoCommandsText

\* ------------------------------------------- the commandParser stage

\* commandParser()'s middleware up to its `await next()`.
ParserEnter(cs, f) ==
  LET text == MessageText(cs.ctx.update)
      parsed == ParseCommand(text.v)
      set == IF StartsWithMarker(text)
               THEN [cs EXCEPT !.ctx.command = parsed.command,
                               !.ctx.args = parsed.args,
                               !.ctx.botUsername = parsed.botUsername]
               ELSE cs
  IN  [set EXCEPT !.stack = Append(Append(Popped(cs), [f EXCEPT !.pc = "await1"]),
                                   DispatchFrame)]

\* ------------------------------------------- the router.middleware() stage

\* commandConfig.minArgs && (!ctx.args || ctx.args.length < commandConfig.minArgs)
MinArgsViolated(cfg, args) ==
  TruthyNumber(cfg.minArgs) /\ (~args.some \/ Len(args.v) < cfg.minArgs.v)

\* commandConfig.maxArgs && ctx.args && ctx.args.length > commandConfig.maxArgs
MaxArgsViolated(cfg, args) ==
  TruthyNumber(cfg.maxArgs) /\ args.some /\ Len(args.v) > cfg.maxArgs.v

\* Mutant of RouterBranch: the default handler does not replace the
\* continuation, and an unknown command falls through to the continuation.
RouterBranchFallsThrough(rt, c) ==
  IF ~Truthy(c.command) THEN "next"
  ELSE IF c.command.v = rt.helpCommand THEN "help"
  ELSE IF MapHas(rt.commandMap, c.command.v) THEN "command"
  ELSE "next"

\* The branch the middleware takes: its if/else chain, top to bottom.
RouterBranch(rt, c) ==
  IF ~Truthy(c.command)
    THEN IF rt.defaultHandler.some THEN "default" ELSE "next"
  ELSE IF c.command.v = rt.helpCommand THEN "help"
  ELSE IF MapHas(rt.commandMap, c.command.v)
    THEN LET cfg == MapGet(rt.commandMap, c.command.v)
         IN  IF MinArgsViolated(cfg, c.args) THEN "min"
             ELSE IF MaxArgsViolated(cfg, c.args) THEN "max"
             ELSE "command"
  ELSE IF rt.unknownCommandHandler.some THEN "unknown"
  ELSE "generic"

\* The handler a handler branch calls: its behaviour, and the number of the
\* CommandConfig it belongs to (0 for the default and unknown-command handlers).
BranchHandler(branch, rt, c) ==
  CASE branch = "default" -> [fn |-> rt.defaultHandler.v, id |-> 0]
    [] branch = "unknown" -> [fn |-> rt.unknownCommandHandler.v, id |-> 0]
    [] branch = "command" ->
         LET cfg == MapGet(rt.commandMap, c.command.v)
         IN  [fn |-> cfg.handler, id |-> cfg.id]

\* The text of the reply a reply branch sends: the template, and what it
\* interpolates (ctx.command and the bound or the help command, or the help
\* text).
ReplyText(branch, rt, c) ==
  CASE branch = "help" ->
         [template |-> "help", command |-> << >>, bound |-> 0,
          text |-> GenerateHelp(rt.commandMap)]
    [] branch = "min" ->
         [template |-> "requires at least", command |-> c.command.v,
          bound |-> MapGet(rt.commandMap, c.command.v).minArgs.v, text |-> << >>]
    [] branch = "max" ->
         [template |-> "accepts at most", command |-> c.command.v,
          bound |-> MapGet(rt.commandMap, c.command.v).maxArgs.v, text |-> << >>]
    [] branch = "generic" ->
         [template |-> "Unknown command", command |-> c.command.v, bound |-> 0,
          text |-> rt.helpCommand]

\* if (ctx.update.message): the replies go to ctx.update.message.chat.id
HasChat(c) == "message" \in c.update.fields

\* The error a failed sendMessage rejects with (a TelegramError).
ReplyError == [type |-> "telegram", kind |-> "-", n |-> 0]

\* The middleware up to its first await, or to its return.
RouterEnter(cs, f) ==
  LET branch == RouterBranch(router, cs.ctx)
      at(pc) == Append(Popped(cs), [f EXCEPT !.pc = pc, !.kind = branch])
  IN  CASE branch = "next" ->
             [cs EXCEPT !.stack = Append(at("await1"), DispatchFrame)]
        [] branch \in {"default", "command", "unknown"} ->
             LET h == BranchHandler(branch, router, cs.ctx)
             IN  Log([cs EXCEPT !.stack = at("handler")],
                     Ev("handler", branch, h.id, h.fn, cs.ctx))
        [] OTHER ->
             IF HasChat(cs.ctx)
               THEN Log([cs EXCEPT !.stack = at("reply")],
                        [Ev("reply", branch, 0, "-", cs.ctx) EXCEPT
                           !.text = ReplyText(branch, router, cs.ctx)])
               ELSE [cs EXCEPT !.stack = at("after")]

\* Mutant of RouterHandlerFailed: the middleware catches what a handler throws.
RouterHandlerCaught(cs, f, h) ==
  [Log(cs, Ev("failed", f.kind, h.id, h.fn, cs.ctx)) EXCEPT
     !.stack = Append(Popped(cs), [f EXCEPT !.pc = "after"])]

\* `await handler(ctx)` rejects: there is no try/catch in the middleware.
RouterHandlerFailed(cs, f, h) ==
  Throw(Log(cs, Ev("failed", f.kind, h.id, h.fn, cs.ctx)),
        HandlerError(f.kind, h.id))

\* The awaited handler or sendMessage has settled.
RouterResume(cs, f) ==
  LET returns == [cs EXCEPT !.stack = Append(Popped(cs), [f EXCEPT !.pc = "after"])]
  IN  IF f.pc = "handler"
        THEN LET h == BranchHandler(f.kind, router, cs.ctx)
             IN  IF h.fn = "bad" THEN RouterHandlerFailed(cs, f, h)
                 ELSE Log(returns, Ev("handled", f.kind, h.id, h.fn, cs.ctx))
        ELSE IF client.net = "down"
               THEN Throw(Log(cs, Ev("failed", "reply", 0, "-", cs.ctx)), ReplyError)
               ELSE returns

\* ------------------------------------------------------- the auth() stage

\* An optional setting left out of the config object.
Unset == [some |-> FALSE, v |-> FALSE]

NoIds == [some |-> FALSE, v |-> {}]

\* The AuthConfig object handed to auth(): every setting is optional.
NoAuthOptions ==
  [allowedUsers |-> NoIds, allowedChats |-> NoIds, adminUsers |-> NoIds,
   allowPrivateChats |-> Unset, allowGroupChats |-> Unset,
   allowSupergroupChats |-> Unset, allowChannelChats |-> Unset,
   customAuth |-> NoHandler, sendDeniedMessage |-> Unset]

\* A destructuring default: `name = dflt`.
OrDefault(x, dflt) == IF x.some THEN x.v ELSE dflt

\* auth(config): the destructured settings the returned stage closes over.
Auth(options) ==
  [allowedUsers |-> options.allowedUsers, allowedChats |-> options.allowedChats,
   adminUsers |-> options.adminUsers,
   allowPrivateChats |-> OrDefault(options.allowPrivateChats, TRUE),
   allowGroupChats |-> OrDefault(options.allowGroupChats, TRUE),
   allowSupergroupChats |-> OrDefault(options.allowSupergroupChats, TRUE),
   allowChannelChats |-> OrDefault(options.allowChannelChats, TRUE),
   customAuth |-> options.customAuth,
   sendDeniedMessage |-> OrDefault(options.sendDeniedMessage, FALSE)]

\* whitelist(userIds)
Whitelist(userIds) ==
  Auth([NoAuthOptions EXCEPT !.allowedUsers = [some |-> TRUE, v |-> userIds],
                             !.sendDeniedMessage = [some |-> TRUE, v |-> TRUE]])

\* ctx.update.message?.from || ctx.update.business_message?.from ||
\* ctx.update.callback_query?.from || ctx.update.inline_query?.from
AuthUser(u) ==
  IF u.fields \cap {"message", "business_message", "callback_query", "inline_query"} # {}
    THEN u.from ELSE NoUser

\* (ctx.update.message || ctx.update.business_message ||
\*  ctx.update.callback_query?.message)?.chat
AuthChat(u) ==
  IF u.fields \cap {"message", "business_message", "callback_query"} # {}
    THEN u.chat ELSE NoChat

\* The chat type check.
ChatTypeAllowed(au, chat) ==
  \/ chat.type = "private" /\ au.allowPrivateChats
  \/ chat.type = "group" /\ au.allowGroupChats
  \/ chat.type = "supergroup" /\ au.allowSupergroupChats
  \/ chat.type = "channel" /\ au.allowChannelChats

\* A check has failed: the denied message is sent if `send`, and the stage
\* returns without calling next().
AuthDenied(cs, f, send) ==
  IF send
    THEN Log([cs EXCEPT !.stack = Append(Popped(cs), [f EXCEPT !.pc = "reply",
                                                                !.kind = "denied"])],
             [Ev("reply", "denied", f.pos, f.fn, cs.ctx) EXCEPT
                !.text = [NoReply EXCEPT !.template = "Access denied."]])
    ELSE [cs EXCEPT !.stack = Append(Popped(cs), [f EXCEPT !.pc = "after"])]

\* The stage from its user check to its `await next()`, its reply or return.
AuthCheck(cs, f) ==
  LET au == authConfig
      user == AuthUser(cs.ctx.update)
      chat == AuthChat(cs.ctx.update)
  IN  IF user.some /\ au.allowedUsers.some /\ user.v \notin au.allowedUsers.v
        THEN AuthDenied(cs, f, au.sendDeniedMessage /\ chat.some)
      ELSE IF chat.some /\ au.allowedChats.some /\ chat.v.id \notin au.allowedChats.v
        THEN AuthDenied(cs, f, au.sendDeniedMessage)
      ELSE IF chat.some /\ ~ChatTypeAllowed(au, chat.v)
        THEN AuthDenied(cs, f, au.sendDeniedMessage)
      ELSE [cs EXCEPT
              !.ctx.user = IF user.some THEN user ELSE @,
              !.ctx.isAdmin = IF user.some
                                THEN au.adminUsers.some /\ user.v \in au.adminUsers.v
                                ELSE @,
              !.ctx.chat = IF chat.some THEN chat ELSE @,
              !.stack = Append(Append(Popped(cs), [f EXCEPT !.pc = "await1"]),
                               DispatchFrame)]

\* The stage up to its first await.
AuthEnter(cs, f) ==
  IF authConfig.customAuth.some
    THEN [cs EXCEPT !.stack = Append(Popped(cs), [f EXCEPT !.pc = "custom"])]
    ELSE AuthCheck(cs, f)

\* `await customAuth(ctx)` has returned: "ok" is true, "bad" is false.
AuthAfterCustom(cs, f) ==
  IF authConfig.customAuth.v = "bad"
    THEN AuthDenied(cs, f, authConfig.sendDeniedMessage
                             /\ AuthChat(cs.ctx.update).some
                             /\ AuthUser(cs.ctx.update).some)
    ELSE AuthCheck(cs, f)

\* auth(options) is called and its stage is the one the chain holds.
SetAuth(au) ==
  /\ authConfig' = au
  /\ UNCHANGED << config, middleware, handlers, index, ctx, stack, running,
                  trace, status, error, update, router, client, registered >>

\* ------------------------------------------------------ a stage (user code)

CanStageBefore(cs) ==
  /\ cs.status = "running" /\ cs.stack # << >>
  /\ Top(cs).op = "stage" /\ Top(cs).pc = "before"

\* The stage's code before its continuation: it sees the context, writes its
\* field (the update's id under the stage's key), then calls next(), returns
\* or throws.
DoStageBefore(cs) ==
  LET f == Top(cs)
      seen == Log(cs, Ev("before", "-", f.pos, f.fn, cs.ctx))
      wrote == [seen EXCEPT
                  !.ctx.ext = @ \cup { << f.pos, cs.ctx.update.update_id >> }]
  IN  CASE f.fn = "commandParser" -> ParserEnter(seen, f)
        [] f.fn = "commandRouter" -> RouterEnter(seen, f)
        [] f.fn = "auth" -> AuthEnter(seen, f)
        [] f.fn = "never" ->
             [wrote EXCEPT !.stack = Append(Popped(cs), [f EXCEPT !.pc = "after"])]
        [] f.fn = "failBefore" ->
             Throw(Log(wrote, Ev("throw", "-", f.pos, f.fn, wrote.ctx)),
                   StageError(f.pos))
        [] OTHER ->
             [wrote EXCEPT !.stack = Append(Append(Popped(cs),
                                                   [f EXCEPT !.pc = "await1"]),
                                            DispatchFrame)]

CanStageResume(cs) ==
  /\ cs.status = "running" /\ cs.stack # << >>
  /\ Top(cs).op = "stage"
  /\ Top(cs).pc \in {"await1", "await2", "handler", "reply", "custom"}

\* Mutant of DoStageResume: the continuation handed to a stage is bound to the
\* stage's position, so a second next() starts again at the stage after it.
DoStageResumeRewind(cs) ==
  LET f == Top(cs)
  IN  CASE f.pc \in {"handler", "reply"} -> RouterResume(cs, f)
        [] f.pc = "custom" -> AuthAfterCustom(cs, f)
        [] f.fn = "failAfter" ->
             Throw(Log(cs, Ev("throw", "-", f.pos, f.fn, cs.ctx)),
                   StageError(f.pos))
        [] f.fn = "twice" /\ f.pc = "await1" ->
             [cs EXCEPT !.index = f.pos,
                        !.stack = Append(Append(Popped(cs),
                                                [f EXCEPT !.pc = "await2"]),
                                         DispatchFrame)]
        [] OTHER ->
             [cs EXCEPT !.stack = Append(Popped(cs), [f EXCEPT !.pc = "after"])]

\* The stage's `await next()` (in the router also `await handler(ctx)` and
\* `await ctx.client.sendMessage(...)`) has returned.
DoStageResume(cs) ==
  LET f == Top(cs)
  IN  CASE f.pc \in {"handler", "reply"} -> RouterResume(cs, f)
        [] f.pc = "custom" -> AuthAfterCustom(cs, f)
        [] f.fn = "failAfter" ->
             Throw(Log(cs, Ev("throw", "-", f.pos, f.fn, cs.ctx)),
                   StageError(f.pos))
        [] f.fn = "twice" /\ f.pc = "await1" ->
             [cs EXCEPT !.stack = Append(Append(Popped(cs),
                                                [f EXCEPT !.pc = "await2"]),
                                         DispatchFrame)]
        [] OTHER ->
             [cs EXCEPT !.stack = Append(Popped(cs), [f EXCEPT !.pc = "after"])]

CanStageAfter(cs) ==
  /\ cs.status = "running" /\ cs.stack # << >>
  /\ Top(cs).op = "stage" /\ Top(cs).pc = "after"

\* Mutant of DoStageAfter: when the stage has returned, dispatch() goes on to
\* the next stage by itself.
DoStageAfterAdvance(cs) ==
  LET f == Top(cs)
  IN  [Log(cs, Ev("after", "-", f.pos, f.fn, cs.ctx)) EXCEPT
         !.stack = Append(Popped(cs), DispatchFrame)]

\* The stage's code after its continuation, and its return to the dispatch()
\* that awaited it (`await middleware(ctx, dispatch)`), which returns too.
DoStageAfter(cs) ==
  LET f == Top(cs)
  IN  [Log(cs, Ev("after", "-", f.pos, f.fn, cs.ctx)) EXCEPT !.stack = Popped(cs)]

\* --------------------------------------------------------------- routeUpdate

\* Mutant of Dispatches: the toggle is not tested.
DispatchesAnyway(kind, fields, cfg) == kind \in fields

\* One `if` of routeUpdate: the kind's field is on the update and the kind's
\* toggle (if it has one) is set.
Dispatches(kind, fields, cfg) ==
  /\ kind \in fields
  /\ (ToggleOf(kind) = "none" \/ cfg[ToggleOf(kind)])

\* The next `if` after the k-th whose condition holds; 0 when there is none.
NextKind(k, fields, cfg) ==
  LET later == { j \in (k + 1)..Len(Kinds) : Dispatches(Kinds[j], fields, cfg) }
  IN  IF later = {} THEN 0 ELSE CHOOSE j \in later : \A m \in later : j <= m

CanRoute(cs) ==
  cs.status = "running" /\ cs.stack # << >> /\ Top(cs).op = "route"

\* routeUpdate from its k-th `if` on: up to the next runHandlers call it
\* awaits, or to its end.
DoRoute(cs) ==
  LET f == Top(cs)
      j == NextKind(f.k, f.fields, config)
  IN  IF j = 0
        THEN [cs EXCEPT !.stack = Popped(cs)]
        ELSE Log([cs EXCEPT !.stack = Append(Append(Popped(cs), [f EXCEPT !.k = j]),
                                             HandlersFrame(Kinds[j], 0))],
                 Ev("registry", Kinds[j], 0, "-", cs.ctx))

\* --------------------------------------------------------------- runHandlers

\* Mutant of CanStart: the loop calls the next handler without awaiting the
\* one before.
CanStartNoAwait(pending) == TRUE

\* `await handler(ctx)`: the loop goes on only when the handler it started has
\* settled.
CanStart(pending) == pending = {}

CanHandlerStart(cs) ==
  /\ cs.status = "running" /\ cs.stack # << >>
  /\ Top(cs).op = "handlers"
  /\ Top(cs).i < Len(handlers[Top(cs).kind])
  /\ CanStart(cs.running)

\* The loop's next iteration: handler(ctx) is called.
DoHandlerStart(cs) ==
  LET f == Top(cs)
      i == f.i + 1
  IN  Log([cs EXCEPT !.stack = Append(Popped(cs), [f EXCEPT !.i = i]),
                     !.running = @ \cup { [kind |-> f.kind, i |-> i] }],
          Ev("start", f.kind, i, handlers[f.kind][i], cs.ctx))

\* Mutant of HandlerFailed: the catch block leaves the loop.
HandlerFailedBreak(cs, inv) ==
  [Log(cs, Ev("caught", inv.kind, inv.i, handlers[inv.kind][inv.i], cs.ctx))
     EXCEPT !.stack = Append(Popped(cs),
                             [Top(cs) EXCEPT !.i = Len(handlers[inv.kind])])]

\* Mutant of HandlerFailed: no try/catch around the handler.
HandlerFailedRethrow(cs, inv) == Throw(cs, HandlerError(inv.kind, inv.i))

\* The catch block of the loop: console.error, and the loop continues.
HandlerFailed(cs, inv) ==
  Log(cs, Ev("caught", inv.kind, inv.i, handlers[inv.kind][inv.i], cs.ctx))

CanHandlerSettle(cs, inv) ==
  /\ cs.status = "running" /\ cs.stack # << >>
  /\ Top(cs).op = "handlers"
  /\ inv \in cs.running

\* A started handler's promise settles: fulfilled, or rejected into the catch.
DoHandlerSettle(cs, inv) ==
  LET done == [cs EXCEPT !.running = @ \ {inv}]
  IN  IF handlers[inv.kind][inv.i] = "bad"
        THEN HandlerFailed(done, inv)
        ELSE Log(done, Ev("end", inv.kind, inv.i, handlers[inv.kind][inv.i], cs.ctx))

CanHandlersReturn(cs) ==
  /\ cs.status = "running" /\ cs.stack # << >>
  /\ Top(cs).op = "handlers"
  /\ Top(cs).i >= Len(handlers[Top(cs).kind])
  /\ cs.running = {}

\* The loop is over: runHandlers returns to routeUpdate.
DoHandlersReturn(cs) == [cs EXCEPT !.stack = Popped(cs)]

\* Some step of the call can be taken: it is not stuck.
CanStep(cs) ==
  \/ CanDispatch(cs) \/ CanStageBefore(cs) \/ CanStageResume(cs)
  \/ CanStageAfter(cs) \/ CanRoute(cs) \/ CanHandlerStart(cs)
  \/ (\E inv \in cs.running : CanHandlerSettle(cs, inv))
  \/ CanHandlersReturn(cs) \/ CanReturn(cs)

\* ------------------------------------------------------------------ actions

Idle == \A c \in CallIds : status[c] = "idle"

\* The c-th update the bot receives is processed; its update_id is c.
ProcessUpdate(c, fields) ==
  /\ status[c] = "idle"
  /\ update' = [update EXCEPT ![c] = Update(c, fields)]
  /\ CommitCall(c, DoProcessUpdate(Update(c, fields)))

\* The c-th update the bot receives, with the sender and the chat of its kind
\* field, is processed.
ProcessFrom(c, u) ==
  /\ status[c] = "idle"
  /\ update' = [update EXCEPT ![c] = SenderUpdate(c, u.fields, NoText, u.from, u.chat)]
  /\ CommitCall(c, DoProcessUpdate(SenderUpdate(c, u.fields, NoText, u.from, u.chat)))

\* The c-th update the bot receives, a message or business message with
\* text, is processed.
ProcessText(c, u) ==
  /\ status[c] = "idle"
  /\ update' = [update EXCEPT ![c] = TextUpdate(c, u.fields, u.text)]
  /\ CommitCall(c, DoProcessUpdate(TextUpdate(c, u.fields, u.text)))

Dispatch(c) == CanDispatch(View(c)) /\ Commit(c, DoDispatch(View(c)))

StageBefore(c) == CanStageBefore(View(c)) /\ Commit(c, DoStageBefore(View(c)))

StageResume(c) == CanStageResume(View(c)) /\ Commit(c, DoStageResume(View(c)))

StageAfter(c) == CanStageAfter(View(c)) /\ Commit(c, DoStageAfter(View(c)))

Route(c) == CanRoute(View(c)) /\ Commit(c, DoRoute(View(c)))

HandlerStart(c) == CanHandlerStart(View(c)) /\ Commit(c, DoHandlerStart(View(c)))

HandlerSettle(c) ==
  \E inv \in running[c] :
    CanHandlerSettle(View(c), inv) /\ Commit(c, DoHandlerSettle(View(c), inv))

HandlersReturn(c) == CanHandlersReturn(View(c)) /\ Commit(c, DoHandlersReturn(View(c)))

Return(c) == CanReturn(View(c)) /\ Commit(c, DoReturn(View(c)))

\* A step of call c between two await points.
CallStep(c) ==
  \/ Dispatch(c)
  \/ StageBefore(c)
  \/ StageResume(c)
  \/ StageAfter(c)
  \/ Route(c)
  \/ HandlerStart(c)
  \/ HandlerSettle(c)
  \/ HandlersReturn(c)
  \/ Return(c)

\* ------------------------------------------------------------ TelegramClient

\* maxRetries (default: 3)
DefaultMaxRetries == 3

\* config.maxRetries || 3
EffectiveMaxRetries(configured) ==
  IF TruthyNumber(configured) THEN configured.v ELSE DefaultMaxRetries

\* private readonly maxRequests = 30
MaxRequests == 30

\* private readonly windowMs = 1000
WindowMs == 1000

\* this.requests.filter(time => now - time < this.windowMs)
RecentRequests(requests, now) ==
  SelectSeq(requests, LAMBDA time : now - time < WindowMs)

\* Math.min(...this.requests), of a non-empty array.
OldestRequest(requests) ==
  CHOOSE m \in { requests[i] : i \in 1..Len(requests) } :
    \A i \in 1..Len(requests) : m <= requests[i]

\* this.windowMs - (now - oldestRequest)
WaitTime(requests, now) == WindowMs - (now - OldestRequest(requests))

\* waitIfNeeded sleeps: the kept requests have reached maxRequests and the
\* wait time is positive.
MustWait(requests, now) ==
  /\ Len(requests) >= MaxRequests
  /\ WaitTime(requests, now) > 0

\* new TelegramClient(config), with no makeRequest call in progress.  net is
\* the network the client's calls go through, clock what Date.now() returns,
\* requests the rate limiter's array, sleepers the waitIfNeeded calls inside
\* their setTimeout, issued the times at which fetch was called, last what
\* the latest attempt ended in.
NewClient(configured, rateLimit, net) ==
  [configured |-> configured, maxRetries |-> EffectiveMaxRetries(configured),
   enableRateLimit |-> rateLimit, net |-> net, pc |-> "idle", retryCount |-> 0,
   attempts |-> 0, delay |-> 0, thrown |-> -1,
   clock |-> 0, requests |-> << >>, sleepers |-> << >>, issued |-> << >>,
   last |-> [kind |-> "-", code |-> 0, retry_after |-> 0]]

\* waitIfNeeded() of call `call`, from its Date.now() to its return or to its
\* setTimeout: `filtered` is set in both cases, the push waits for the timer.
WaitIfNeededEnter(cl, call) ==
  LET now == cl.clock
      kept == RecentRequests(cl.requests, now)
  IN  IF MustWait(kept, now)
        THEN [cl EXCEPT !.requests = kept,
                        !.sleepers = Append(@, [call |-> call, now |-> now,
                                                wake |-> now + WaitTime(kept, now)])]
        ELSE [cl EXCEPT !.requests = Append(kept, now)]

\* Whether waitIfNeeded of the call entered last went to sleep.
Sleeping(cl, call) ==
  \E i \in 1..Len(cl.sleepers) : cl.sleepers[i].call = call

\* The sequence without its i-th element.
RemoveAt(seq, i) == SubSeq(seq, 1, i - 1) \o SubSeq(seq, i + 1, Len(seq))

\* fetch(url, ...) is called: an HTTP request is issued at the current time.
Issue(cl) == [cl EXCEPT !.issued = Append(@, cl.clock)]

\* Nothing of the UpdateHandler or the CommandRouter changes.
ClientOnly ==
  UNCHANGED << config, middleware, handlers, index, ctx, stack, running,
               trace, status, error, update, router, registered, authConfig >>

\* The first step of makeRequest: the rate limiter, when enabled.
EnterRequest(cl, retryCount) ==
  [cl EXCEPT !.pc = IF cl.enableRateLimit THEN "limit" ELSE "fetch",
             !.retryCount = retryCount]

\* makeRequest(method, params): a call from an API method, retryCount = 0.
MakeRequest ==
  /\ client.pc = "idle"
  /\ client' = [EnterRequest(client, 0) EXCEPT !.attempts = 0, !.delay = 0,
                                               !.thrown = -1]
  /\ ClientOnly

\* await this.rateLimiter.waitIfNeeded(): the call made by makeRequest.
WaitIfNeeded ==
  /\ client.pc = "limit"
  /\ client' = LET cl == WaitIfNeededEnter(client, "makeRequest")
               IN  [cl EXCEPT !.pc = IF Sleeping(cl, "makeRequest")
                                       THEN "throttled" ELSE "fetch"]
  /\ ClientOnly

\* The setTimeout of a sleeping waitIfNeeded fires, at its time or later:
\* this.requests.push(now) with the `now` read before the sleep, then the
\* caller goes on to its fetch.
WakeUp ==
  /\ \E i \in 1..Len(client.sleepers) :
       LET sl == client.sleepers[i]
           cl == [client EXCEPT !.sleepers = RemoveAt(@, i),
                                !.requests = Append(@, sl.now)]
       IN  /\ sl.wake <= client.clock
           /\ client' = IF sl.call = "makeRequest"
                          THEN [cl EXCEPT !.pc = "fetch"]
                          ELSE Issue(cl)
  /\ ClientOnly

\* Another API call on the same client, concurrent with the ones in progress:
\* makeRequest from its entry to its fetch, or to the limiter's sleep.
ApiCall ==
  /\ Len(client.issued) + Len(client.sleepers) < MaxApiCalls
  /\ client' = IF client.enableRateLimit
                 THEN LET cl == WaitIfNeededEnter(client, "other")
                      IN  IF Len(cl.sleepers) > Len(client.sleepers)
                            THEN cl ELSE Issue(cl)
                 ELSE Issue(client)
  /\ ClientOnly

\* The instants at which the clock is read.
Instants == {0, 500, 600, 1000}

\* Time passes, to the next instant.
Tick ==
  /\ \E t \in Instants :
       /\ t > client.clock
       /\ \A t2 \in Instants : t2 > client.clock => t <= t2
       /\ client' = [client EXCEPT !.clock = t]
  /\ ClientOnly

\* What one HTTP attempt ends in: a response with ok = true; with ok = false,
\* error_code 429 and a retry_after (of so many seconds); with error_code 429
\* and no retry_after; with another error_code; or fetch / response.json()
\* throwing (network failure, timeout, a body that is not JSON).
Responses ==
  { [kind |-> "ok", code |-> 200, retry_after |-> 0],
    [kind |-> "error", code |-> 429, retry_after |-> 1],
    [kind |-> "error", code |-> 429, retry_after |-> 0],
    [kind |-> "error", code |-> 400, retry_after |-> 0],
    [kind |-> "network", code |-> 0, retry_after |-> 0] }

\* Mutant of MayRetry: one retry more than maxRetries.
MayRetryOnceMore(retryCount, maxRetries) == retryCount <= maxRetries

\* retryCount < this.maxRetries
MayRetry(retryCount, maxRetries) == retryCount < maxRetries

\* Mutant of AfterFetch: the TelegramError thrown inside the try block is
\* handled by the catch block like a network error.
AfterFetchCatchAll(cl, resp) ==
  LET tried == [Issue(cl) EXCEPT !.attempts = @ + 1, !.last = resp]
      retry == MayRetry(cl.retryCount, cl.maxRetries)
  IN  CASE resp.kind = "ok" -> [tried EXCEPT !.pc = "returned"]
        [] resp.kind = "error" /\ resp.code = 429 /\ resp.retry_after # 0 /\ retry ->
             [tried EXCEPT !.pc = "sleep", !.delay = resp.retry_after * 1000]
        [] OTHER ->
             IF retry
               THEN [tried EXCEPT !.pc = "sleep", !.delay = 1000 * (cl.retryCount + 1)]
               ELSE [tried EXCEPT !.pc = "thrown", !.thrown = 0]

\* makeRequest from its fetch to its return, throw or sleep before a retry.
AfterFetch(cl, resp) ==
  LET tried == [Issue(cl) EXCEPT !.attempts = @ + 1, !.last = resp]
      retry == MayRetry(cl.retryCount, cl.maxRetries)
  IN  CASE resp.kind = "ok" -> [tried EXCEPT !.pc = "returned"]
        [] resp.kind = "error" ->
             IF resp.code = 429 /\ resp.retry_after # 0 /\ retry
               THEN [tried EXCEPT !.pc = "sleep", !.delay = resp.retry_after * 1000]
               ELSE [tried EXCEPT !.pc = "thrown", !.thrown = resp.code]
        [] resp.kind = "network" ->
             IF retry
               THEN [tried EXCEPT !.pc = "sleep", !.delay = 1000 * (cl.retryCount + 1)]
               ELSE [tried EXCEPT !.pc = "thrown", !.thrown = 0]

\* One HTTP attempt: await fetch(...), await response.json().
Fetch ==
  /\ client.pc = "fetch"
  /\ \E resp \in Responses :
       /\ client.net = "down" => resp.kind = "network"
       /\ client' = AfterFetch(client, resp)
  /\ ClientOnly

\* The setTimeout before a retry fires:
\* return this.makeRequest(method, params, retryCount + 1)
Retry ==
  /\ client.pc = "sleep"
  /\ client' = [EnterRequest(client, client.retryCount + 1)
                  EXCEPT !.clock = @ + client.delay]
  /\ ClientOnly

\* The network the client's requests go through fails (the environment).
NetworkFails ==
  /\ client.net = "up"
  /\ client' = [client EXCEPT !.net = "down"]
  /\ ClientOnly

\* -------------------------------------------------------- the pipeline spec

\* The updates of the pipeline specification.
PipelineUpdates == { {}, {"message"}, {"message", "inline_query"} }

\* The state after `new UpdateHandler(cfg)` and the registrations that built
\* the chain mw and the handler arrays hs.
InitHandler(cfgs, mw, hs) ==
  /\ config \in cfgs
  /\ middleware = mw
  /\ handlers = hs
  /\ registered = [use |-> mw, on |-> hs, commands |-> << >>]
  /\ router = NewRouter
  /\ authConfig = Auth(NoAuthOptions)
  /\ update = [c \in CallIds |-> Update(0, {})]
  /\ index = [c \in CallIds |-> 0]
  /\ ctx = [c \in CallIds |-> NoCtx]
  /\ stack = [c \in CallIds |-> << >>]
  /\ running = [c \in CallIds |-> {}]
  /\ trace = [c \in CallIds |-> << >>]
  /\ status = [c \in CallIds |-> "idle"]
  /\ error = [c \in CallIds |-> NoError]

\* ... and `new TelegramClient({ token })`.
InitWith(cfgs, mw, hs) ==
  /\ InitHandler(cfgs, mw, hs)
  /\ client = NewClient(NoNumber, TRUE, "up")

NoHandlers == [kind \in KindSet |-> << >>]

Init == InitWith({DefaultConfig}, << >>, NoHandlers)

\* Registration happens during setup, before any update is processed.
SetupUse(fns, max) ==
  \E s \in fns : Idle /\ Len(registered.use) < max /\ Use(s)

SetupOn(kinds, fns, max) ==
  \E kind \in kinds, f \in fns :
    Idle /\ Len(registered.on[kind]) < max /\ On(kind, f)

\* The c-th update arrives, one of `updates`.
Receive(c, updates) ==
  status[c] = "idle" /\ \E fields \in updates : ProcessUpdate(c, fields)

Next ==
  \/ SetupUse(StageFns, MaxStages)
  \/ SetupOn({"message"}, {"ok"}, MaxHandlers)
  \/ Receive(1, PipelineUpdates)
  \/ CallStep(1)

Spec == Init /\ [][Next]_vars

\* ------------------------------------------------------- the settlement spec
\* The pipeline with resolving and throwing handlers, and the scheduling of
\* the event loop: a call that can take a step (a continuation whose promise
\* has settled) eventually takes it.

NextSettle ==
  \/ SetupUse(StageFns, 2)
  \/ SetupOn({"message"}, HandlerFns, 2)
  \/ Receive(1, PipelineUpdates)
  \/ CallStep(1)

SpecSettle == Init /\ [][NextSettle]_vars /\ WF_vars(CallStep(1))

\* ---------------------------------------------------------- the fan-out spec
\* Registries of resolving and throwing handlers for two kinds, behind at most
\* one stage.

FanoutKinds == {"message", "edited_message"}

FanoutUpdates == (SUBSET FanoutKinds) \ {{}}

NextFanout ==
  \/ SetupUse({"once", "twice"}, 1)
  \/ SetupOn(FanoutKinds, HandlerFns, MaxHandlers)
  \/ Receive(1, FanoutUpdates)
  \/ CallStep(1)

SpecFanout == Init /\ [][NextFanout]_vars

\* ---------------------------------------------------------- the routing spec
\* Every kind and every toggle: one handler registered for each kind behind
\* one stage, every configuration with at most one toggle disabled, every
\* update with at most MaxFields kind fields.

RouteConfigs == {DefaultConfig} \cup { ConfigWithout(t) : t \in Toggles }

RECURSIVE FieldSets(_)
FieldSets(n) ==
  IF n = 0 THEN {{}}
  ELSE FieldSets(n - 1) \cup { fs \cup {kind} : fs \in FieldSets(n - 1), kind \in KindSet }

InitRoute == InitWith(RouteConfigs, << "once" >>, [kind \in KindSet |-> << "ok" >>])

RouteUpdates == FieldSets(MaxFields)

NextRoute ==
  \/ Receive(1, RouteUpdates)
  \/ CallStep(1)

SpecRoute == InitRoute /\ [][NextRoute]_vars

\* ------------------------------------------------------ the concurrency spec
\* Up to MaxCalls processUpdate calls in progress on one UpdateHandler, their
\* steps interleaved at every await point.

ConcUpdates == { {}, {"message"} }

NextConc ==
  \/ SetupUse(StageFns, 1)
  \/ SetupOn({"message"}, {"ok"}, 1)
  \/ \E c \in CallIds : Receive(c, ConcUpdates)
  \/ \E c \in CallIds : CallStep(c)

SpecConc == Init /\ [][NextConc]_vars

\* ----------------------------------------------------------- the parser spec
\* commandParser in front of the router of updates, for every text of at most
\* MaxText characters in a message or a business message.

\* The marker, the space, the bot-name separator, a letter and a tab.
ParseChars == {"/", " ", "@", "a", "\t"}

Texts(n) == UNION { [1..m -> ParseChars] : m \in 0..n }

\* An update whose only kind field is `kind`, with that text.
TextOn(kind, text) == [fields |-> {kind}, text |-> [NoText EXCEPT ![kind] = text]]

ParseUpdates ==
  { TextOn(kind, text) :
      kind \in {"message", "business_message"},
      text \in {Undefined} \cup { Some(t) : t \in Texts(MaxText) } }

MessageHandlers ==
  [kind \in KindSet |->
     IF kind \in {"message", "business_message"} THEN << "ok" >> ELSE << >>]

InitParse == InitWith({DefaultConfig}, << "commandParser" >>, MessageHandlers)

ReceiveText(c, updates) ==
  status[c] = "idle" /\ \E u \in updates : ProcessText(c, u)

NextParse ==
  \/ ReceiveText(1, ParseUpdates)
  \/ CallStep(1)

SpecParse == InitParse /\ [][NextParse]_vars

\* --------------------------------------------------- the registration spec
\* Up to MaxCommands command() calls on one CommandRouter.

RegNames == { << "a" >>, << "A" >>, << "b" >> }

RegAliases == { Undefined, Some(<< << "p" >> >>), Some(<< << "a" >> >>),
                Some(<< << "P" >> >>) }

RegDescriptions == { Undefined, Some(<< "D" >>) }

RegConfigs ==
  { CommandConfig(0, name, description, "ok", aliases, NoNumber, NoNumber, ic) :
      name \in RegNames, description \in RegDescriptions,
      aliases \in RegAliases, ic \in BOOLEAN }

\* The next command() call, with one of `configs`.
SetupCommand(configs, max) ==
  \E cfg \in configs :
    /\ Idle
    /\ Len(registered.commands) < max
    /\ Command([cfg EXCEPT !.id = Len(registered.commands) + 1])

NextReg == SetupCommand(RegConfigs, MaxCommands)

SpecReg == Init /\ [][NextReg]_vars

\* ---------------------------------------------------- the command spec
\* commandParser, then the router's middleware, then one more stage: one
\* command registered (with or without an alias, arity bounds and
\* ignoreCase), with or without default and unknown-command handlers, every
\* command text of up to MaxArgs arguments in a message or business message.

Arg == << "x" >>

\* name, name x, name x x, ...
RECURSIVE WithArgs(_, _)
WithArgs(str, n) == IF n = 0 THEN str ELSE WithArgs(str, n - 1) \o << " " >> \o Arg

\* The names typed: the command with and without its capital, its alias, the
\* help command, a name nothing is registered under.
TypedNames == { << "a" >>, << "A" >>, << "p" >>, DefaultHelpCommand, << "z" >> }

CmdTexts ==
  { Undefined, Some(<< "x" >>), Some(<< "/" >>) }
    \cup { Some(WithArgs(<< "/" >> \o name, n)) : name \in TypedNames, n \in 0..MaxArgs }

CmdUpdates ==
  { TextOn(kind, text) : kind \in {"message", "business_message"}, text \in CmdTexts }

CmdNames == { [command |-> << "a" >>, ignoreCase |-> FALSE],
              [command |-> << "A" >>, ignoreCase |-> TRUE] }

CmdAliases == { Undefined, Some(<< << "p" >> >>), Some(<< DefaultHelpCommand >>) }

CmdMinArgs == { NoNumber, Num(1), Num(2) }

CmdMaxArgs == { NoNumber, Num(0), Num(1) }

CmdConfigs ==
  { CommandConfig(0, nm.command, Some(<< "D" >>), "ok", aliases, min, max,
                  nm.ignoreCase) :
      nm \in CmdNames, aliases \in CmdAliases, min \in CmdMinArgs,
      max \in CmdMaxArgs }
    \cup { CommandConfig(0, nm.command, Undefined, "bad", aliases, NoNumber,
                         NoNumber, nm.ignoreCase) :
             nm \in CmdNames, aliases \in CmdAliases }

SetupDefault(fns) ==
  \E h \in fns : Idle /\ ~router.defaultHandler.some /\ Default(h)

SetupUnknown(fns) ==
  \E h \in fns : Idle /\ ~router.unknownCommandHandler.some /\ Unknown(h)

InitCmd ==
  InitWith({DefaultConfig}, << "commandParser", "commandRouter", "once" >>,
           MessageHandlers)

NextCmd ==
  \/ NetworkFails
  \/ SetupCommand(CmdConfigs, 1)
  \/ SetupDefault(HandlerFns)
  \/ SetupUnknown(HandlerFns)
  \/ ReceiveText(1, CmdUpdates)
  \/ CallStep(1)

SpecCmd == InitCmd /\ [][NextCmd]_vars

\* --------------------------------------------------- the help command spec
\* The router behind commandParser, with the help command's name left as it
\* is or set by help(name), and a command registered under the help command's
\* default name or under another name.

HelpNames == { << "a" >>, << "p" >> }

HelpConfigs ==
  { CommandConfig(0, name, Some(<< "D" >>), h, Undefined, NoNumber, NoNumber, FALSE) :
      name \in { << "a" >>, DefaultHelpCommand }, h \in HandlerFns }

SetupHelp(names) ==
  \E name \in names : Idle /\ router.helpCommand = DefaultHelpCommand /\ Help(name)

NextHelp ==
  \/ NetworkFails
  \/ SetupHelp(HelpNames)
  \/ SetupCommand(HelpConfigs, 1)
  \/ ReceiveText(1, CmdUpdates)
  \/ CallStep(1)

SpecHelp == InitCmd /\ [][NextHelp]_vars

\* ----------------------------------------------------------- the auth spec
\* auth(options) in front of a stage and one handler for every kind; updates
\* of one kind from user 1 or 2 (or without `from`) in chat 1 or 2.

Users == {1, 2}

Chats == { [id |-> 1, type |-> "private"], [id |-> 2, type |-> "group"] }

\* `from` is optional in a message (absent in channels) and `chat` required;
\* a callback_query has `from` and may have a `message`; an inline_query has
\* `from` and no chat.
AuthUpdates ==
  { [fields |-> {kind}, from |-> from, chat |-> [some |-> TRUE, v |-> chat]] :
      kind \in {"message", "business_message", "edited_message", "channel_post"},
      from \in {NoUser} \cup { [some |-> TRUE, v |-> id] : id \in Users },
      chat \in Chats }
    \cup { [fields |-> {"callback_query"}, from |-> [some |-> TRUE, v |-> id],
            chat |-> chat] :
             id \in Users, chat \in {NoChat} \cup { [some |-> TRUE, v |-> ch] : ch \in Chats } }
    \cup { [fields |-> {"inline_query"}, from |-> [some |-> TRUE, v |-> id],
            chat |-> NoChat] : id \in Users }

AuthOptions ==
  { [NoAuthOptions EXCEPT !.allowedUsers = users, !.allowedChats = chats,
                          !.allowGroupChats = groups, !.customAuth = custom,
                          !.sendDeniedMessage = send] :
      users \in { NoIds, [some |-> TRUE, v |-> {1}] },
      chats \in { NoIds, [some |-> TRUE, v |-> {1}] },
      groups \in { Unset, [some |-> TRUE, v |-> FALSE] },
      custom \in { NoHandler } \cup { [some |-> TRUE, v |-> h] : h \in HandlerFns },
      send \in { Unset, [some |-> TRUE, v |-> TRUE] } }

SetupAuth(options) ==
  \E o \in options :
    /\ Idle /\ authConfig = Auth(NoAuthOptions)
    /\ SetAuth(Auth(o))

SetupWhitelist(users) ==
  \E ids \in SUBSET users :
    /\ Idle /\ authConfig = Auth(NoAuthOptions)
    /\ SetAuth(Whitelist(ids))

ReceiveFrom(c, updates) ==
  status[c] = "idle" /\ \E u \in updates : ProcessFrom(c, u)

InitAuth ==
  InitWith({DefaultConfig}, << "auth", "once" >>, [kind \in KindSet |-> << "ok" >>])

NextAuth ==
  \/ NetworkFails
  \/ SetupAuth(AuthOptions)
  \/ SetupWhitelist(Users)
  \/ ReceiveFrom(1, AuthUpdates)
  \/ CallStep(1)

SpecAuth == InitAuth /\ [][NextAuth]_vars

\* ------------------------------------------------ the documented setup spec
\* The chain of the README's and the examples' bots: a logging stage, then
\* updateHandler.use(router.middleware()); commandParser is not registered.

InitDocs ==
  InitWith({DefaultConfig}, << "once", "commandRouter" >>, MessageHandlers)

NextDocs ==
  \/ SetupCommand(CmdConfigs, 1)
  \/ SetupDefault(HandlerFns)
  \/ SetupUnknown(HandlerFns)
  \/ ReceiveText(1, CmdUpdates)
  \/ CallStep(1)

SpecDocs == InitDocs /\ [][NextDocs]_vars

\* -------------------------------------------------------- the transport spec
\* One makeRequest call on a TelegramClient constructed with maxRetries
\* absent or 0..MaxConfigured, with and without rate limiting, every attempt
\* ending in any of the responses.

ConfiguredRetries == {NoNumber} \cup { Num(n) : n \in 0..MaxConfigured }

InitRetry ==
  /\ InitHandler({DefaultConfig}, << >>, NoHandlers)
  /\ client \in { NewClient(configured, rateLimit, "up") :
                    configured \in ConfiguredRetries, rateLimit \in BOOLEAN }

NextRetry ==
  \/ NetworkFails
  \/ MakeRequest
  \/ WaitIfNeeded
  \/ Fetch
  \/ Retry

SpecRetry == InitRetry /\ [][NextRetry]_vars

\* ------------------------------------------------------- the rate limit spec
\* Up to MaxApiCalls concurrent API calls on one TelegramClient, with and
\* without rate limiting, entering at the instants of the clock.

InitRate ==
  /\ InitHandler({DefaultConfig}, << >>, NoHandlers)
  /\ client \in { NewClient(NoNumber, rateLimit, "up") : rateLimit \in BOOLEAN }

NextRate ==
  \/ ApiCall
  \/ WakeUp
  \/ Tick

SpecRate == InitRate /\ [][NextRate]_vars

\* ------------------------------------------------------------ a call alone

\* The step a call takes next (its steps are taken one at a time, in the one
\* order its awaits allow).
StepCall(cs) ==
  CASE CanDispatch(cs) -> DoDispatch(cs)
    [] CanStageBefore(cs) -> DoStageBefore(cs)
    [] CanStageResume(cs) -> DoStageResume(cs)
    [] CanStageAfter(cs) -> DoStageAfter(cs)
    [] CanRoute(cs) -> DoRoute(cs)
    [] CanHandlerStart(cs) -> DoHandlerStart(cs)
    [] CanHandlersReturn(cs) -> DoHandlersReturn(cs)
    [] CanReturn(cs) -> DoReturn(cs)
    [] OTHER -> DoHandlerSettle(cs, CHOOSE inv \in cs.running : TRUE)

\* processUpdate(u) run to its end with no other call in progress.
RECURSIVE RunAlone(_)
RunAlone(cs) == IF cs.status # "running" THEN cs ELSE RunAlone(StepCall(cs))

SoloRun(u) == RunAlone(DoProcessUpdate(u))

\* =================================================================== claims

\* The trace as (what, position) pairs.
Proj(tr) == [j \in 1..Len(tr) |-> << tr[j].e, tr[j].n >>]

IsPrefix(a, b) == Len(a) <= Len(b) /\ a = SubSeq(b, 1, Len(a))

IsChainEvent(ev) == ev.e \in {"before", "route", "after"}

IsBefore(ev) == ev.e = "before"

ChainOf(tr) == Proj(SelectSeq(tr, IsChainEvent))

FnsOf(evs) == [j \in 1..Len(evs) |-> evs[j].fn]

NumsOf(evs) == [j \in 1..Len(evs) |-> evs[j].n]

StartsOf(tr, kind) ==
  LET isStart(ev) == ev.e = "start" /\ ev.kind = kind
  IN  SelectSeq(tr, isStart)

Fields(c) == update[c].fields

\* before 1, ..., before n, the terminal action, after n, ..., after 1
Onion(n) ==
  [j \in 1..(2 * n + 1) |->
     IF j <= n THEN << "before", j >>
     ELSE IF j = n + 1 THEN << "route", 0 >>
     ELSE << "after", 2 * n + 2 - j >>]

AllOnce == \A j \in 1..Len(middleware) : middleware[j] = "once"

\* C1 (onion ordering): when every registered stage calls its continuation
\* exactly once, one processUpdate call runs the before-code of the stages in
\* registration order, then the terminal routing action, then the after-code
\* of the stages in reverse registration order; at every moment of the call
\* what has run is a prefix of that order, and the call resolves with all of it.
C1_OnionOrdering ==
  (AllOnce /\ status[1] # "idle") =>
     /\ IsPrefix(ChainOf(trace[1]), Onion(Len(middleware)))
     /\ status[1] # "rejected"
     /\ status[1] = "resolved" => ChainOf(trace[1]) = Onion(Len(middleware))

C1_Witness ==
  /\ status[1] = "resolved"
  /\ middleware = << "once", "once", "once" >>
  /\ ChainOf(trace[1]) = Onion(3)

\* Stage b never calls its continuation and the stages before it call theirs
\* exactly once.
ShortCircuitAt(b) ==
  /\ middleware[b] = "never"
  /\ \A j \in 1..(b - 1) : middleware[j] = "once"

\* before 1, ..., before b, after b, ..., after 1
ShortChain(b) ==
  [j \in 1..(2 * b) |->
     IF j <= b THEN << "before", j >> ELSE << "after", 2 * b + 1 - j >>]

\* C2 (short-circuit): if stage b returns without calling its continuation
\* (the stages before it calling theirs once), no stage after b, no terminal
\* routing action and no handler runs for that update; the stages up to b run
\* their before-code, then their after-code in reverse order once b has
\* returned, and processUpdate resolves without error.
C2_ShortCircuit ==
  \A b \in 1..Len(middleware) :
    (ShortCircuitAt(b) /\ status[1] # "idle") =>
       /\ IsPrefix(Proj(trace[1]), ShortChain(b))
       /\ status[1] # "rejected"
       /\ status[1] = "running" => CanStep(View(1))
       /\ status[1] = "resolved" =>
            Proj(trace[1]) = ShortChain(b) /\ error[1] = NoError

C2_Witness ==
  /\ status[1] = "resolved"
  /\ middleware = << "once", "never", "once" >>
  /\ handlers["message"] # << >>
  /\ "message" \in Fields(1)
  /\ Proj(trace[1]) = ShortChain(2)

\* C5 (middleware failure): an error thrown by a stage is the last thing that
\* happens in the call: no enclosing stage's after-code runs, processUpdate
\* rejects with that stage's error, and a rejected processUpdate always ends in
\* such a throw; if the stage threw before calling its continuation, no stage
\* registered after it, no terminal action and no handler has run.
C5_MiddlewareFailurePropagates ==
  LET tr == trace[1]
  IN  /\ \A j \in 1..Len(tr) :
           tr[j].e = "throw" =>
             /\ j = Len(tr)
             /\ status[1] = "rejected"
             /\ error[1] = StageError(tr[j].n)
             /\ tr[j].fn = "failBefore" =>
                  \A m \in 1..Len(tr) :
                    /\ tr[m].e \notin {"route", "registry", "start"}
                    /\ tr[m].e = "before" => tr[m].n <= tr[j].n
      /\ status[1] = "rejected" =>
           /\ Len(tr) > 0
           /\ tr[Len(tr)].e = "throw"

C5_Witness ==
  /\ status[1] = "rejected"
  /\ middleware = << "once", "failBefore", "once" >>
  /\ error[1] = StageError(2)
  /\ handlers["message"] # << >>
  /\ "message" \in Fields(1)

\* C9 (no de-duplication): every use() call adds a chain position and every
\* on...() call adds a registry entry, also for a function registered before:
\* a call through a chain of stages that each continue once runs one stage per
\* use() call, at that call's position, and a matching update runs one handler
\* per onMessage() call, in the order of the calls.
C9_NoDeduplication ==
  (/\ status[1] = "resolved"
   /\ \A j \in 1..Len(registered.use) : registered.use[j] = "once") =>
     /\ FnsOf(SelectSeq(trace[1], IsBefore)) = registered.use
     /\ NumsOf(SelectSeq(trace[1], IsBefore)) = [j \in 1..Len(registered.use) |-> j]
     /\ "message" \in Fields(1) =>
          FnsOf(StartsOf(trace[1], "message")) = registered.on["message"]

C9_Witness ==
  /\ status[1] = "resolved"
  /\ registered.use = << "once", "once" >>
  /\ registered.on["message"] = << "ok", "ok" >>
  /\ "message" \in Fields(1)
  /\ Len(SelectSeq(trace[1], IsBefore)) = 2
  /\ Len(StartsOf(trace[1], "message")) = 2

\* The kind's field is on call c's update and the kind's toggle is enabled.
Applies(kind, c) ==
  /\ kind \in Fields(c)
  /\ (ToggleOf(kind) = "none" \/ config[ToggleOf(kind)])

\* 1, 2, ..., n
UpTo(n) == [j \in 1..n |-> j]

RegistriesOf(tr) ==
  LET isRegistry(ev) == ev.e = "registry"
      evs == SelectSeq(tr, isRegistry)
  IN  [j \in 1..Len(evs) |-> evs[j].kind]

RoutedOnce(tr) == Cardinality({ j \in 1..Len(tr) : tr[j].e = "route" }) = 1

\* C3 (fan-out with isolation): once a handler of a registry has thrown, the
\* call is not rejected, and when processUpdate has resolved (the terminal
\* action having run once) every handler of that registry, the ones
\* registered after the failed one included, has run exactly once and in
\* registration order, and so has every handler of every other kind that
\* applies to the update.
C3_FanOutWithIsolation ==
  LET tr == trace[1]
  IN  \A j \in 1..Len(tr) :
        tr[j].e = "caught" =>
          /\ status[1] # "rejected"
          /\ (status[1] = "resolved" /\ RoutedOnce(tr)) =>
               \A kind \in KindSet :
                 Applies(kind, 1) =>
                   /\ NumsOf(StartsOf(tr, kind)) = UpTo(Len(handlers[kind]))
                   /\ FnsOf(StartsOf(tr, kind)) = handlers[kind]
                   /\ \E m \in 1..Len(tr) :
                        tr[m].e = "registry" /\ tr[m].kind = kind

C3_Witness ==
  /\ status[1] = "resolved"
  /\ handlers["message"] = << "ok", "bad", "ok" >>
  /\ handlers["edited_message"] = << "ok" >>
  /\ Fields(1) = {"message", "edited_message"}
  /\ RoutedOnce(trace[1])
  /\ NumsOf(StartsOf(trace[1], "message")) = << 1, 2, 3 >>
  /\ \E j \in 1..Len(trace[1]) : trace[1][j].e = "caught" /\ trace[1][j].n = 2

NoStageFails ==
  \A j \in 1..Len(middleware) : middleware[j] \notin {"failBefore", "failAfter"}

\* C4 (handler failures do not propagate): when no middleware stage fails,
\* processUpdate is never rejected and carries no error, whichever handlers
\* throw, and while it has not resolved it can always take a step.
C4_HandlerFailureIsolated ==
  (NoStageFails /\ status[1] # "idle") =>
     /\ status[1] # "rejected"
     /\ error[1] = NoError
     /\ status[1] = "running" => CanStep(View(1))

C4_Witness ==
  /\ status[1] = "resolved"
  /\ handlers["message"] = << "bad", "bad" >>
  /\ Cardinality({ j \in 1..Len(trace[1]) : trace[1][j].e = "caught" }) >= 2

IsSettle(ev) == ev.e \in {"end", "caught"}

\* C8 (sequential handlers): at most one handler of a call is in progress at
\* any moment: a handler is started only when every handler started before
\* it has settled, the handler started after handler i of a registry being
\* handler i + 1 of the same registry or the first of the next one.
C8_HandlersSequential ==
  LET tr == trace[1]
  IN  /\ Cardinality(running[1]) <= 1
      /\ \A j \in 1..Len(tr) :
           tr[j].e = "start" =>
             /\ Cardinality({ m \in 1..(j - 1) : tr[m].e = "start" })
                  = Cardinality({ m \in 1..(j - 1) : IsSettle(tr[m]) })
             /\ tr[j].n > 1 =>
                  /\ IsSettle(tr[j - 1])
                  /\ tr[j - 1].kind = tr[j].kind
                  /\ tr[j - 1].n = tr[j].n - 1

C8_Witness ==
  /\ status[1] = "resolved"
  /\ Len(handlers["message"]) >= 2
  /\ \E j \in 1..Len(trace[1]) :
       trace[1][j].e = "start" /\ trace[1][j].kind = "message" /\ trace[1][j].n = 2

\* C6 (dispatch condition): no registry is invoked and no handler started for
\* a kind that does not apply (field absent, or toggle disabled); when
\* processUpdate has resolved after the chain reached the terminal action,
\* the registries invoked are exactly those of the kinds that apply, each
\* running all its handlers; and the call always resolves, also when no kind
\* applies.
C6_DispatchCondition ==
  LET tr == trace[1]
  IN  /\ \A j \in 1..Len(tr) :
           tr[j].e \in {"registry", "start"} => Applies(tr[j].kind, 1)
      /\ status[1] # "rejected"
      /\ status[1] = "running" => CanStep(View(1))
      /\ (status[1] = "resolved" /\ RoutedOnce(tr)) =>
           \A kind \in KindSet :
             /\ Applies(kind, 1) <=> (\E j \in 1..Len(tr) :
                                        tr[j].e = "registry" /\ tr[j].kind = kind)
             /\ Len(StartsOf(tr, kind))
                  = IF Applies(kind, 1) THEN Len(handlers[kind]) ELSE 0

C6_Witness ==
  /\ status[1] = "resolved"
  /\ ~config["handleInlineQueries"]
  /\ Fields(1) = {"inline_query", "message"}
  /\ handlers["inline_query"] # << >>
  /\ StartsOf(trace[1], "inline_query") = << >>
  /\ Len(StartsOf(trace[1], "message")) = 1

\* The declaration order of the kinds.
DeclaredRank(kind) ==
  CASE kind = "message" -> 1
    [] kind = "edited_message" -> 2
    [] kind = "channel_post" -> 3
    [] kind = "edited_channel_post" -> 4
    [] kind = "business_connection" -> 5
    [] kind = "business_message" -> 6
    [] kind = "edited_business_message" -> 7
    [] kind = "business_messages_deleted" -> 8
    [] kind = "message_reaction" -> 9
    [] kind = "message_reaction_count" -> 10
    [] kind = "inline_query" -> 11
    [] kind = "chosen_inline_result" -> 12
    [] kind = "callback_query" -> 13
    [] kind = "shipping_query" -> 14
    [] kind = "pre_checkout_query" -> 15
    [] kind = "poll" -> 16
    [] kind = "poll_answer" -> 17
    [] kind = "my_chat_member" -> 18
    [] kind = "chat_member" -> 19
    [] kind = "chat_join_request" -> 20
    [] kind = "chat_boost" -> 21
    [] kind = "removed_chat_boost" -> 22

\* C7 (kind independence): within one processUpdate call the registries run
\* in declaration order (message, edited_message, channel_post,
\* edited_channel_post, business_connection, business_message, ...,
\* chat_boost, removed_chat_boost), each at most once, and when the call has
\* resolved the registry of every populated and enabled kind has run.
C7_KindIndependence ==
  LET rs == RegistriesOf(trace[1])
  IN  /\ \A j \in 1..Len(rs), m \in 1..Len(rs) :
           j < m => DeclaredRank(rs[j]) < DeclaredRank(rs[m])
      /\ status[1] = "resolved" =>
           { rs[j] : j \in 1..Len(rs) } = { kind \in KindSet : Applies(kind, 1) }

C7_Witness ==
  /\ status[1] = "resolved"
  /\ Fields(1) = {"business_message", "business_connection"}
  /\ config = DefaultConfig
  /\ RegistriesOf(trace[1]) = << "business_connection", "business_message" >>
  /\ Len(StartsOf(trace[1], "business_connection")) = 1
  /\ Len(StartsOf(trace[1], "business_message")) = 1

\* C10 (concurrent updates do not interfere): whatever the interleaving of
\* the calls in progress, what a call has run so far, with the context each
\* stage and handler was handed, is a prefix of what the same update runs
\* when processed alone, and the call ends with the same trace, outcome and
\* error; every context a call's stages and handlers see holds that call's
\* update and only fields written for that update.
C10_ConcurrentUpdatesIndependent ==
  \A c \in CallIds :
    status[c] # "idle" =>
      LET solo == SoloRun(update[c])
          tr == trace[c]
      IN  /\ IsPrefix(tr, solo.trace)
          /\ status[c] # "running" =>
               /\ tr = solo.trace
               /\ status[c] = solo.status
               /\ error[c] = solo.error
          /\ ctx[c].update = update[c]
          /\ \A j \in 1..Len(tr) :
               /\ tr[j].u = update[c].update_id
               /\ \A w \in tr[j].x : w[2] = update[c].update_id

C10_Witness ==
  /\ status[1] = "running" /\ status[2] = "running"
  /\ middleware = << "twice" >>
  /\ index[1] = 1 /\ index[2] = 0
  /\ Len(trace[1]) >= 2
  /\ Len(stack[2]) = 1 /\ Top(View(2)).op = "dispatch"
  /\ ctx[1].ext = { << 1, 1 >> } /\ ctx[2].ext = {}

\* ------------------------------------------------------ the command router

Settled(c) == status[c] \in {"resolved", "rejected"}

\* Call c's update carries a command text: what commandParser makes of it.
HasCommandText(c) == StartsWithMarker(MessageText(update[c]))

Typed(c) == ParseCommand(MessageText(update[c]).v)

\* The typed name reaches the router's lookup and is found there.
KnownCommand(c) ==
  /\ HasCommandText(c)
  /\ Typed(c).command.v # << >>
  /\ Typed(c).command.v # router.helpCommand
  /\ MapHas(router.commandMap, Typed(c).command.v)

Found(c) == MapGet(router.commandMap, Typed(c).command.v)

\* A registered command's handler was invoked in call c.
CommandHandlerRan(c) ==
  \E j \in 1..Len(trace[c]) : trace[c][j].e = "handler" /\ trace[c][j].kind = "command"

\* A usage reply with that wording, naming the typed command and the bound.
UsageReplySent(c, template, n) ==
  \E j \in 1..Len(trace[c]) :
    /\ trace[c][j].e = "reply"
    /\ trace[c][j].text.template = template
    /\ trace[c][j].text.command = Typed(c).command.v
    /\ trace[c][j].text.bound = n

WithinMax(cfg, args) == ~(cfg.maxArgs.some /\ Len(args) > cfg.maxArgs.v)

WithinMin(cfg, args) == ~(cfg.minArgs.some /\ Len(args) < cfg.minArgs.v)

\* C11 (minimum arity): a command declaring minArgs = n, invoked with fewer
\* than n arguments, never has its handler invoked and a usage reply naming
\* the command and n is sent; invoked with at least n arguments (and no more
\* than a declared maximum) its handler is invoked with the parsed argument
\* list.
C11_MinimumArity ==
  (KnownCommand(1) /\ Found(1).minArgs.some) =>
     LET cfg == Found(1)
         args == Typed(1).args.v
     IN  IF Len(args) < cfg.minArgs.v
           THEN /\ ~CommandHandlerRan(1)
                /\ Settled(1) => UsageReplySent(1, "requires at least", cfg.minArgs.v)
           ELSE (WithinMax(cfg, args) /\ Settled(1)) =>
                  \E j \in 1..Len(trace[1]) :
                    /\ trace[1][j].e = "handler"
                    /\ trace[1][j].kind = "command"
                    /\ trace[1][j].n = cfg.id
                    /\ trace[1][j].args = Some(args)

\* C11 for the updates that carry `message` (where the replies go).
C11_InMessages == HasChat(ctx[1]) => C11_MinimumArity

\* C12 (maximum arity): a command declaring maxArgs = n, for every n >= 0,
\* invoked in a message with more than n arguments (and no fewer than a
\* declared minimum), never has its handler invoked and a usage reply naming
\* the command and n is sent.
C12_MaximumArity ==
  (/\ KnownCommand(1) /\ "message" \in Fields(1)
   /\ Found(1).maxArgs.some
   /\ Len(Typed(1).args.v) > Found(1).maxArgs.v
   /\ WithinMin(Found(1), Typed(1).args.v)) =>
     /\ ~CommandHandlerRan(1)
     /\ Settled(1) => UsageReplySent(1, "accepts at most", Found(1).maxArgs.v)

\* C12 for the bounds n >= 1.
C12_PositiveBounds ==
  (KnownCommand(1) /\ Found(1).maxArgs.v >= 1) => C12_MaximumArity

\* What a run did, leaving out the command name the context carried: its
\* steps with the handler, arguments and reply of each, and how it ended.
Outcome(cs) ==
  [status |-> cs.status, error |-> cs.error,
   steps |-> [j \in 1..Len(cs.trace) |->
                [e |-> cs.trace[j].e, kind |-> cs.trace[j].kind,
                 n |-> cs.trace[j].n, fn |-> cs.trace[j].fn,
                 args |-> cs.trace[j].args,
                 template |-> cs.trace[j].text.template,
                 bound |-> cs.trace[j].text.bound]]]

\* processUpdate of `/<name> x ... x` (n arguments) in an update of that kind.
Invoke(kind, name, n) ==
  LET u == TextOn(kind, Some(WithArgs(<< "/" >> \o name, n)))
  IN  SoloRun(TextUpdate(1, u.fields, u.text))

\* C13 (alias equivalence): after command(config) with an alias list, for
\* every alias (other than the help command's name), every number of
\* arguments and either kind of message, invoking the alias runs the same
\* handler, under the same arity checks and with the same arguments, as
\* invoking the command's own name.
C13_AliasEquivalence ==
  (status[1] = "idle" /\ Len(registered.commands) = 1) =>
     LET cfg == registered.commands[1]
     IN  cfg.aliases.some =>
           \A a \in 1..Len(cfg.aliases.v), n \in 0..MaxArgs,
              kind \in {"message", "business_message"} :
             cfg.aliases.v[a] # router.helpCommand =>
               Outcome(Invoke(kind, cfg.aliases.v[a], n))
                 = Outcome(Invoke(kind, cfg.command, n))

\* C13 for the commands that do not set ignoreCase.
C13_CaseSensitive ==
  (Len(registered.commands) = 1 /\ ~registered.commands[1].ignoreCase)
    => C13_AliasEquivalence

\* The config objects the map holds, and those of them with a description.
MapConfigs(map) == { map[j].value : j \in 1..Len(map) }

Described(map) == { cfg \in MapConfigs(map) : cfg.description.some }

\* The lines of a help text.
HelpLines(text) == IF text = NoCommandsText THEN << >> ELSE SplitOn(text, "\n")

\* C14 (help generation): the help text is the lines `/<command> -
\* <description>` joined by newlines, one line for each registered command
\* definition that declares a description and no other line (none for a
\* command without a description).
C14_HelpGeneration ==
  LET map == router.commandMap
      lines == HelpLines(GenerateHelp(map))
  IN  /\ \A cfg \in Described(map) :
           Cardinality({ j \in 1..Len(lines) : lines[j] = HelpLine(cfg) })
             = Cardinality({ other \in Described(map) : HelpLine(other) = HelpLine(cfg) })
      /\ \A j \in 1..Len(lines) :
           \E cfg \in Described(map) : lines[j] = HelpLine(cfg)

\* C14 when no registered command has an alias.
C14_WithoutAliases ==
  (\A j \in 1..Len(registered.commands) : ~registered.commands[j].aliases.some)
    => C14_HelpGeneration

\* The typed name is not the help command and the router's map has no entry
\* for it.
UnknownCommand(c) ==
  /\ HasCommandText(c)
  /\ Typed(c).command.v # router.helpCommand
  /\ ~MapHas(router.commandMap, Typed(c).command.v)

\* The router's continuation ran in call c: the stage registered after the
\* router was entered.
ContinuationCalls(c) ==
  Cardinality({ j \in 1..Len(trace[c]) :
                  trace[c][j].e = "before" /\ trace[c][j].n = 3 })

HandlerRuns(c, branch) ==
  Cardinality({ j \in 1..Len(trace[c]) :
                  trace[c][j].e = "handler" /\ trace[c][j].kind = branch })

Replies(c) == Cardinality({ j \in 1..Len(trace[c]) : trace[c][j].e = "reply" })

GenericReplySent(c) ==
  \E j \in 1..Len(trace[c]) :
    /\ trace[c][j].e = "reply"
    /\ trace[c][j].text.template = "Unknown command"
    /\ trace[c][j].text.command = Typed(c).command.v
    /\ trace[c][j].text.text = router.helpCommand

\* C15 (unknown command): when the name typed in a message matches no
\* registered name or alias and is not the help command, the continuation is
\* not called; if an unknown-command handler is registered it is invoked and
\* no reply is sent, otherwise the generic reply naming the command and the
\* help command is sent.
C15_UnknownCommand ==
  (UnknownCommand(1) /\ "message" \in Fields(1)) =>
     /\ ContinuationCalls(1) = 0
     /\ IF router.unknownCommandHandler.some
          THEN /\ Replies(1) = 0
               /\ Settled(1) => HandlerRuns(1, "unknown") = 1
          ELSE Settled(1) => GenericReplySent(1)

\* C15 for a non-empty name.
C15_NamedCommands ==
  (UnknownCommand(1) /\ Typed(1).command.v # << >>) => C15_UnknownCommand

\* The router finds no command on the context: the text does not start with
\* the marker, or there is no text, or the name after the marker is empty.
NoCommandContext(c) == ~HasCommandText(c) \/ Typed(c).command.v = << >>

Routed(c) == \E j \in 1..Len(trace[c]) : trace[c][j].e = "route"

\* C16 (no command): for an update without command context, if a default
\* handler is registered the router invokes it (once) and the continuation is
\* never called; otherwise the continuation is called exactly once, the
\* chain goes on to the terminal action, no handler of the router is
\* invoked and no reply is sent.
C16_NoCommandTransition ==
  (status[1] # "idle" /\ NoCommandContext(1)) =>
     /\ HandlerRuns(1, "command") = 0
     /\ HandlerRuns(1, "unknown") = 0
     /\ Replies(1) = 0
     /\ IF router.defaultHandler.some
          THEN /\ ContinuationCalls(1) = 0
               /\ ~Routed(1)
               /\ HandlerRuns(1, "default") <= 1
               /\ Settled(1) => HandlerRuns(1, "default") = 1
          ELSE /\ HandlerRuns(1, "default") = 0
               /\ ContinuationCalls(1) <= 1
               /\ Settled(1) =>
                    ContinuationCalls(1) = 1 /\ Routed(1) /\ status[1] = "resolved"

C16_Witness ==
  /\ status[1] = "resolved"
  /\ ~router.defaultHandler.some
  /\ router.commandMap # << >>
  /\ MessageText(update[1]) = Some(<< "x" >>)
  /\ ContinuationCalls(1) = 1
  /\ Routed(1)

\* C19 (command handler failure): what a command handler, the default
\* handler or the unknown-command handler throws is the last thing that
\* happens in the call: no stage's after-code runs, and processUpdate
\* rejects with that handler's error; every such handler that throws makes
\* the call reject.
C19_CommandHandlerFailurePropagates ==
  LET tr == trace[1]
  IN  /\ \A j \in 1..Len(tr) :
           (tr[j].e = "failed" /\ tr[j].kind \in {"command", "default", "unknown"}) =>
             /\ j = Len(tr)
             /\ status[1] = "rejected"
             /\ error[1] = HandlerError(tr[j].kind, tr[j].n)
      /\ \A j \in 1..Len(tr) :
           (tr[j].e = "handler" /\ tr[j].fn = "bad") =>
             /\ status[1] # "resolved"
             /\ status[1] = "running" => CanStep(View(1))
             /\ \A m \in (j + 1)..Len(tr) : tr[m].e = "failed"

C19_Witness ==
  /\ status[1] = "rejected"
  /\ error[1] = HandlerError("command", 1)
  /\ Len(trace[1]) > 0
  /\ trace[1][Len(trace[1])].e = "failed"
  /\ "message" \in Fields(1)

\* ------------------------------------------------------------ commandParser

Whitespace == {" ", "\t"}

\* The whitespace-separated tokens of a string: its maximal runs of
\* characters that are not whitespace.
RECURSIVE Tokens(_)
Tokens(str) ==
  LET at == { j \in 1..Len(str) : str[j] \in Whitespace }
  IN  IF at = {} THEN IF str = << >> THEN << >> ELSE << str >>
      ELSE LET j == CHOOSE m \in at : \A n \in at : m <= n
               rest == Tokens(SubSeq(str, j + 1, Len(str)))
           IN  IF j = 1 THEN rest ELSE << SubSeq(str, 1, j - 1) >> \o rest

\* commandParser has run in call c.
Parsed(c) == status[c] # "idle" /\ Len(trace[c]) >= 1

\* C17 (command parsing): for a text that starts with the marker, the command
\* name is the first whitespace-separated token without the marker and
\* without its @botname suffix, the bot username is that suffix (if there is
\* one), and the arguments are the remaining whitespace-separated tokens in
\* order, none of them empty.
C17_CommandParsing ==
  (Parsed(1) /\ HasCommandText(1)) =>
     LET tokens == Tokens(MessageText(update[1]).v)
         pieces == SplitOn(Tail(tokens[1]), "@")
     IN  /\ ctx[1].command = Some(pieces[1])
         /\ ctx[1].args = Some(Tail(tokens))
         /\ Len(pieces) = 1 => ctx[1].botUsername = Undefined
         /\ Len(pieces) = 2 => ctx[1].botUsername = Some(pieces[2])

\* Every whitespace character of the text is a single space between two
\* tokens.
SingleSpaced(str) ==
  \A j \in 1..Len(str) :
    str[j] \in Whitespace =>
      /\ str[j] = " "
      /\ 1 < j /\ j < Len(str)
      /\ str[j + 1] \notin Whitespace

\* C17 for the texts whose tokens are separated by single spaces.
C17_SingleSpaced ==
  (HasCommandText(1) /\ SingleSpaced(MessageText(update[1]).v)) => C17_CommandParsing

\* ------------------------------------------------------------ registration

\* The names a command() call used: the command name and the aliases.
NamesOf(cfg) ==
  {cfg.command}
    \cup (IF cfg.aliases.some
            THEN { cfg.aliases.v[j] : j \in 1..Len(cfg.aliases.v) } ELSE {})

\* The keys a command() call registered: its names, lowercased when the
\* config sets ignoreCase.
KeysOf(cfg) == { IF cfg.ignoreCase THEN ToLowerCase(name) ELSE name : name \in NamesOf(cfg) }

Latest(js) == CHOOSE j \in js : \A m \in js : m <= j

\* The command() calls so far that used the name / registered the key.
CallsUsing(name) ==
  { j \in 1..Len(registered.commands) : name \in NamesOf(registered.commands[j]) }

CallsRegistering(key) ==
  { j \in 1..Len(registered.commands) : key \in KeysOf(registered.commands[j]) }

\* C18 as stated (last registration wins, by exact name): every name a
\* command() call used maps to the definition of the most recent call that
\* used that exact name.
C18_LastRegistrationWinsByName ==
  \A j \in 1..Len(registered.commands) :
    \A name \in NamesOf(registered.commands[j]) :
      /\ MapHas(router.commandMap, name)
      /\ MapGet(router.commandMap, name).id = Latest(CallsUsing(name))

\* C18 as amended (last registration wins, by key): the map's keys are the
\* names the command() calls used, lowercased where the call's config sets
\* ignoreCase, each key once; every key maps to the config of the most recent
\* call that registered it, so a key no later call registers keeps its
\* mapping.
C18_LastRegistrationWins ==
  LET map == router.commandMap
  IN  /\ \A j \in 1..Len(map), m \in 1..Len(map) : map[j].key = map[m].key => j = m
      /\ \A j \in 1..Len(map) : CallsRegistering(map[j].key) # {}
      /\ \A j \in 1..Len(registered.commands) :
           \A key \in KeysOf(registered.commands[j]) :
             /\ MapHas(map, key)
             /\ MapGet(map, key) = registered.commands[Latest(CallsRegistering(key))]

C18_Witness ==
  /\ Len(registered.commands) = 2
  /\ registered.commands[1].command = << "a" >>
  /\ registered.commands[1].aliases = Some(<< << "p" >> >>)
  /\ registered.commands[2].command = << "A" >>
  /\ registered.commands[2].ignoreCase
  /\ MapGet(router.commandMap, << "a" >>).id = 2
  /\ MapGet(router.commandMap, << "p" >>).id = 1

\* ---------------------------------------------------------------- transport

\* The retry bound as configured: the configured value, 3 when absent.
ConfiguredBound(cl) ==
  IF cl.configured.some THEN cl.configured.v ELSE DefaultMaxRetries

\* C20 (bounded retry): one API call makes at most maxRetries + 1 HTTP
\* attempts, maxRetries being the configured value (3 when absent) for every
\* configured value >= 0; it retries only while fewer than maxRetries retries
\* were made, and ends by returning or by throwing a TelegramError.
C20_BoundedRetry ==
  /\ client.attempts <= ConfiguredBound(client) + 1
  /\ client.retryCount <= ConfiguredBound(client)
  /\ client.pc = "thrown" => client.thrown >= 0

\* C20 with the bound the constructor stored: attempts <= this.maxRetries + 1,
\* the k-th attempt being made with retryCount = k - 1.
C20_StoredBound ==
  /\ client.attempts <= client.maxRetries + 1
  /\ client.retryCount <= client.maxRetries
  /\ client.pc \in {"sleep", "returned", "thrown"} =>
       client.attempts = client.retryCount + 1
  /\ client.pc = "sleep" => client.retryCount < client.maxRetries
  /\ client.pc = "thrown" => client.thrown >= 0

\* The HTTP requests issued in the window of WindowMs that starts at `from`.
IssuedWithin(from) ==
  Cardinality({ i \in 1..Len(client.issued) :
                  /\ from <= client.issued[i]
                  /\ client.issued[i] < from + WindowMs })

\* C21 (rate ceiling): with rate limiting enabled, at most 30 HTTP requests
\* are issued within any window of 1000 ms, whatever the interleaving of the
\* concurrent API calls.
C21_RateCeiling ==
  client.enableRateLimit =>
    \A i \in 1..Len(client.issued) : IssuedWithin(client.issued[i]) <= MaxRequests

\* C21 for calls that never had to sleep: the ceiling holds as long as no
\* waitIfNeeded call has been through its setTimeout.
C21_WithoutSleep ==
  (client.enableRateLimit /\ Len(client.requests) = Len(client.issued)
     /\ \A i \in 1..Len(client.issued) : client.requests[i] = client.issued[i]) =>
    \A i \in 1..Len(client.issued) : IssuedWithin(client.issued[i]) <= MaxRequests

\* ---------------------------------------------------------------- settlement

\* The number of events of call c that satisfy Test.
CountOf(c, Test(_)) == Cardinality({ j \in 1..Len(trace[c]) : Test(trace[c][j]) })

\* Every stage that was entered has returned, and the handlers of every
\* registry that was entered have all been called and have all completed.
AllCompleted(c) ==
  /\ stack[c] = << >> /\ running[c] = {}
  /\ \A pos \in 1..Len(middleware) :
       CountOf(c, LAMBDA ev : ev.e = "before" /\ ev.n = pos)
         = CountOf(c, LAMBDA ev : ev.e = "after" /\ ev.n = pos)
  /\ \A kind \in KindSet :
       /\ CountOf(c, LAMBDA ev : ev.e = "start" /\ ev.kind = kind)
            = CountOf(c, LAMBDA ev : ev.e \in {"end", "caught"} /\ ev.kind = kind)
       /\ CountOf(c, LAMBDA ev : ev.e = "start" /\ ev.kind = kind)
            = Len(handlers[kind]) * CountOf(c, LAMBDA ev : ev.e = "registry" /\ ev.kind = kind)
  /\ CountOf(c, LAMBDA ev : ev.e = "registry")
       = CountOf(c, LAMBDA ev : ev.e = "route")
           * Cardinality({ kind \in KindSet : Applies(kind, c) })

\* A middleware failure has propagated out of processUpdate.
MiddlewareFailed(c) ==
  /\ status[c] = "rejected" /\ error[c].type = "stage"
  /\ \E j \in 1..Len(trace[c]) : trace[c][j].e = "throw" /\ trace[c][j].n = error[c].n

\* C22 (settlement): processUpdate settles only after every stage entered has
\* returned and every applicable handler has completed, or a middleware
\* failure has propagated out; and, every stage and handler terminating, a
\* processUpdate call in progress eventually settles.
C22_Settlement ==
  /\ [](Settled(1) => (status[1] = "resolved" /\ AllCompleted(1)) \/ MiddlewareFailed(1))
  /\ (status[1] = "running") ~> Settled(1)

\* A call resolved after two stages were entered and two handlers ran, one of
\* them failing.
C22_Witness ==
  /\ status[1] = "resolved"
  /\ CountOf(1, LAMBDA ev : ev.e = "after") >= 2
  /\ CountOf(1, LAMBDA ev : ev.e = "end") >= 1
  /\ CountOf(1, LAMBDA ev : ev.e = "caught") >= 1

\* ------------------------------------------------------ continuation twice

\* Stage b calls its continuation twice and every other stage calls its
\* continuation once.
TwiceAt(b) ==
  /\ b \in 1..Len(middleware)
  /\ middleware[b] = "twice"
  /\ \A j \in 1..Len(middleware) : j # b => middleware[j] = "once"

\* How many times the stage at position pos was entered.
Entered(c, pos) == CountOf(c, LAMBDA ev : ev.e = "before" /\ ev.n = pos)

\* How many times routeUpdate and each handler of the update's kinds ran.
Routings(c) == CountOf(c, LAMBDA ev : ev.e = "route")

HandlersRan(c, times) ==
  \A kind \in KindSet : \A i \in 1..Len(handlers[kind]) :
    Applies(kind, c) =>
      CountOf(c, LAMBDA ev : ev.e = "end" /\ ev.kind = kind /\ ev.n = i) = times

\* C23 (continuation called twice): when a stage has called its continuation
\* twice, every stage registered after it and the handlers have been executed
\* a second time for that update.
C23_RemainderRunsAgain ==
  \A b \in 1..Len(middleware) :
    (status[1] = "resolved" /\ TwiceAt(b)) =>
      /\ \A pos \in (b + 1)..Len(middleware) : Entered(1, pos) = 2
      /\ Routings(1) = 2
      /\ HandlersRan(1, 2)

\* C23 amended: no stage is ever entered a second time for an update, and
\* when a stage has called its continuation twice (the others calling theirs
\* once) every stage has been entered once and routeUpdate and the handlers
\* have run twice.
C23_OnlyHandlersRunAgain ==
  /\ \A pos \in 1..Len(middleware) : Entered(1, pos) <= 1
  /\ \A b \in 1..Len(middleware) :
       (status[1] = "resolved" /\ TwiceAt(b)) =>
         /\ \A pos \in 1..Len(middleware) : Entered(1, pos) = 1
         /\ Routings(1) = 2
         /\ HandlersRan(1, 2)

\* A resolved call whose first of three stages called its continuation twice,
\* with a handler that ran twice.
C23_Witness ==
  /\ status[1] = "resolved"
  /\ middleware = << "twice", "once", "once" >>
  /\ Len(handlers["message"]) >= 1 /\ Applies("message", 1)
  /\ HandlersRan(1, 2)

\* ------------------------------------------------------- the router's branch

\* The position of the router in the chain.
RouterPos == CHOOSE pos \in 1..Len(middleware) : middleware[pos] = "commandRouter"

\* The router was entered, and what it did then: it called its continuation
\* (the next stage was entered, or routeUpdate when the router is the last
\* stage), ran a handler of the given branches, or sent a reply.
RouterEntered(c) == Entered(c, RouterPos) >= 1

RouterContinued(c) ==
  IF RouterPos < Len(middleware) THEN Entered(c, RouterPos + 1) >= 1 ELSE Routed(c)

RouterRan(c, branches) ==
  \E j \in 1..Len(trace[c]) :
    trace[c][j].e = "handler" /\ trace[c][j].kind \in branches

RouterReplied(c) == \E j \in 1..Len(trace[c]) : trace[c][j].e = "reply"

\* The no-command branch: the default handler, or the continuation.
TookNoCommandBranch(c) == RouterRan(c, {"default"}) \/ RouterContinued(c)

\* The help, known-command and unknown-command branches.
TookCommandBranch(c) == RouterRan(c, {"command", "unknown"}) \/ RouterReplied(c)

\* C24 (branch selection): the router takes the no-command branch if and only
\* if the update has no message text or the text does not start with "/";
\* for a message whose text starts with "/" it takes the help, the
\* known-command or the unknown-command branch.
C24_NoCommandBranch ==
  (Settled(1) /\ "message" \in Fields(1) /\ RouterEntered(1)) =>
     /\ TookNoCommandBranch(1) <=> ~HasCommandText(1)
     /\ HasCommandText(1) => TookCommandBranch(1)

\* C24 for a text whose command name is not empty.
C24_NamedCommands ==
  (HasCommandText(1) => Typed(1).command.v # << >>) => C24_NoCommandBranch

\* --------------------------------------------------------------- ignoreCase

\* The typed name is, in some casing, a name or an alias of that command.
MatchesIgnoringCase(c, cfg) ==
  \E name \in NamesOf(cfg) : ToLowerCase(Typed(c).command.v) = ToLowerCase(name)

\* C25 (ignoreCase): a command registered with ignoreCase = true is matched
\* case-insensitively: whatever the casing of its name or alias in the text
\* (the help command's name apart, and the arity bounds being met), the
\* router dispatches to that command's handler.
C25_IgnoreCase ==
  (Settled(1) /\ HasCommandText(1) /\ Len(registered.commands) = 1) =>
     LET cfg == registered.commands[1]
     IN  ( /\ cfg.ignoreCase
           /\ MatchesIgnoringCase(1, cfg)
           /\ Typed(1).command.v # router.helpCommand
           /\ WithinMin(cfg, Typed(1).args.v) /\ WithinMax(cfg, Typed(1).args.v)
           /\ (cfg.maxArgs.some => cfg.maxArgs.v > 0) )
         => \E j \in 1..Len(trace[1]) :
              /\ trace[1][j].e = "handler" /\ trace[1][j].kind = "command"
              /\ trace[1][j].n = cfg.id

\* C25 for a name typed in lower case.
C25_LowerCaseTyped ==
  (HasCommandText(1) => Typed(1).command.v = ToLowerCase(Typed(1).command.v))
    => C25_IgnoreCase

\* -------------------------------------------------------------- help branch

\* The name typed is the help command's.
HelpTyped(c) == HasCommandText(c) /\ Typed(c).command.v = router.helpCommand

\* The generated help text was sent as a reply.
HelpReplySent(c) ==
  \E j \in 1..Len(trace[c]) :
    /\ trace[c][j].e = "reply"
    /\ trace[c][j].text.template = "help"
    /\ trace[c][j].text.text = GenerateHelp(router.commandMap)

\* C26 (help branch): when the parsed command name is the help command's, the
\* router sends the generated help text as a reply and stops: it does not
\* call its continuation and invokes no handler, not even that of a command
\* registered under the help command's name.
C26_HelpBranch ==
  (Settled(1) /\ HelpTyped(1)) =>
     /\ HelpReplySent(1)
     /\ ~RouterContinued(1)
     /\ ~RouterRan(1, {"default", "command", "unknown"})

\* C26 for an update carrying message.
C26_InMessages == "message" \in Fields(1) => C26_HelpBranch

\* ------------------------------------------------------------- one outcome

\* How many times the router ran a handler, sent a reply or called its
\* continuation in call c.
Outcomes(c) ==
  CountOf(c, LAMBDA ev : ev.e = "handler")
    + CountOf(c, LAMBDA ev : ev.e = "reply")
    + (IF RouterPos < Len(middleware) THEN Entered(c, RouterPos + 1) ELSE Routings(c))

\* C27 (exactly one outcome): for every update the router does exactly one
\* of these, once: runs the default handler, calls the continuation, sends
\* the help reply, runs one registered command's handler, sends a usage
\* reply, runs the unknown-command handler, sends the generic reply; and a
\* command handler and the continuation are never both invoked.
C27_ExactlyOneOutcome ==
  /\ (Settled(1) /\ RouterEntered(1)) => Outcomes(1) = 1
  /\ Outcomes(1) <= 1
  /\ ~(CommandHandlerRan(1) /\ RouterContinued(1))

\* C27 for an update carrying message.
C27_InMessages == "message" \in Fields(1) => C27_ExactlyOneOutcome

\* ---------------------------------------------------------------- whitelist

\* The stage at position pos called its continuation in call c.
Continued(c, pos) ==
  IF pos < Len(middleware) THEN Entered(c, pos + 1) >= 1 ELSE Routed(c)

\* A handler was called in call c.
HandlerCalled(c) == \E j \in 1..Len(trace[c]) : trace[c][j].e = "start"

\* C28 (whitelist): with auth({allowedUsers}) as a stage, for every kind of
\* update that carries a sender, the continuation is called, and a handler
\* runs, only if the sender's id is in allowedUsers.
C28_WhitelistNotBypassed ==
  (authConfig.allowedUsers.some /\ update[1].from.some
     /\ (Continued(1, 1) \/ HandlerCalled(1))) =>
    update[1].from.v \in authConfig.allowedUsers.v

\* C28 for the kinds the stage reads the sender of: message, business_message,
\* callback_query and inline_query.
C28_SenderRead ==
  AuthUser(update[1]).some => C28_WhitelistNotBypassed

\* ------------------------------------------------------------------ toggles

\* The families the claim names: the kinds each toggle governs.
Family(t) ==
  CASE t = "handleEditedMessages" -> {"edited_message"}
    [] t = "handleChannelPosts" -> {"channel_post", "edited_channel_post"}
    [] t = "handleInlineQueries" -> {"inline_query", "chosen_inline_result"}
    [] t = "handleBusinessMessages" ->
         {"business_message", "edited_business_message", "business_messages_deleted"}
    [] t = "handleMessageReactions" -> {"message_reaction", "message_reaction_count"}
    [] t = "handleChatMemberUpdates" -> {"my_chat_member", "chat_member"}
    [] t = "handleChatBoosts" -> {"chat_boost", "removed_chat_boost"}

NamedToggles ==
  { "handleEditedMessages", "handleChannelPosts", "handleInlineQueries",
    "handleBusinessMessages", "handleMessageReactions", "handleChatMemberUpdates",
    "handleChatBoosts" }

\* The kind's registry ran in call c: its handler was called.
Ran(c, kind) == Len(StartsOf(trace[c], kind)) >= 1

\* C29 (toggle-to-kind mapping): once the call has resolved, the message
\* registry has run exactly when the update carries message, whatever the
\* configuration; a kind of a named family has run exactly when the update
\* carries it and the family's toggle is enabled; and with one toggle
\* disabled every kind outside its family that the update carries has run.
C29_ToggleFamilies ==
  status[1] = "resolved" =>
    /\ Ran(1, "message") <=> "message" \in Fields(1)
    /\ \A t \in NamedToggles : \A kind \in Family(t) :
         Ran(1, kind) <=> (kind \in Fields(1) /\ config[t])
    /\ \A t \in NamedToggles : \A kind \in KindSet \ Family(t) :
         (config = ConfigWithout(t) /\ kind \in Fields(1)) => Ran(1, kind)
    /\ \A kind \in KindSet : Ran(1, kind) => kind \in Fields(1)

\* A resolved call with handleChannelPosts disabled on an update carrying
\* edited_channel_post and edited_message: only the latter's registry ran.
C29_Witness ==
  /\ status[1] = "resolved"
  /\ config = ConfigWithout("handleChannelPosts")
  /\ Fields(1) = {"edited_channel_post", "edited_message"}
  /\ Ran(1, "edited_message") /\ ~Ran(1, "edited_channel_post")

\* ------------------------------------------------------- retryable failures

\* What the latest attempt ended in: an ok = false response that is not a
\* 429 with a retry_after; such a response with a retry_after; a failure that
\* is not a TelegramError.
LastNotRetryable ==
  /\ client.last.kind = "error"
  /\ ~(client.last.code = 429 /\ client.last.retry_after > 0)

LastRateLimited ==
  client.last.kind = "error" /\ client.last.code = 429 /\ client.last.retry_after > 0

LastNetwork == client.last.kind = "network"

\* C30 (retryable failures): an ok = false response is retried only when it
\* is a 429 carrying a retry_after; every other ok = false response makes
\* makeRequest throw a TelegramError with the response's error code on that
\* attempt, with no retry through the network-error path; only failures that
\* are not TelegramErrors are retried with the backoff, 1000 ms times the
\* attempt's number.
C30_RetryableOnly ==
  /\ client.pc = "sleep" => LastRateLimited \/ LastNetwork
  /\ LastNotRetryable =>
       /\ client.pc = "thrown" /\ client.thrown = client.last.code
       /\ client.attempts = client.retryCount + 1
  /\ (client.pc = "sleep" /\ LastNetwork) =>
       client.delay = 1000 * (client.retryCount + 1)
  /\ (client.pc = "sleep" /\ LastRateLimited) =>
       client.delay = 1000 * client.last.retry_after
  /\ (client.pc = "thrown" /\ LastRateLimited) =>
       client.thrown = 429 /\ client.retryCount = client.maxRetries
  /\ (client.pc = "thrown" /\ LastNetwork) =>
       client.thrown = 0 /\ client.retryCount = client.maxRetries

\* An error response with code 400 on the second attempt, after a network
\* failure was retried: thrown at once.
C30_Witness ==
  /\ client.pc = "thrown" /\ client.thrown = 400
  /\ client.attempts = 2 /\ client.retryCount = 1
  /\ client.maxRetries = 3

====
